---- MODULE Spec2Model ----
(***************************************************************************)
(* Client-side reconciliation layer of the Kristory launcher front-end as  *)
(* a state machine: the Home component of src/src/app/page.tsx (bootstrap  *)
(* retry fetcher, the two status polling loops, the status line, the error *)
(* classifier, the update footer, teardown) and the SettingsDialog of      *)
(* src/unnamed/part_001 (settings synchronizer, optimistic mod toggles).   *)
(*                                                                         *)
(* Strings are sequences of Unicode code points, so that startsWith,       *)
(* includes and replace are computed on the characters the code sees.      *)
(***************************************************************************)
EXTENDS Integers, Sequences, FiniteSets, TLC

\* ------------------------------------------------------------------ bounds

\* fetchBackendData chains that may be started (the mount chain plus chains
\* started by handleDataChange)
MaxChains == 2
\* launcher-status polls issued (the mount poll plus interval ticks)
MaxStatusPolls == 2
\* server-status polls issued (the mount poll plus interval ticks)
MaxServerPolls == 4
\* handleSaveSettings calls made in the settings dialog
MaxSaves == 1
\* handleToggleMod calls made in the settings dialog
MaxToggles == 2
\* handleSaveSettings calls made from the debug tab while the dialog stays
\* open
MaxLogSaves == 2
\* handleAddAccount calls of the add-account dialog that pass its guard
MaxAuthCalls == 2

\* ------------------------------------------------------- program constants

\* fetchBackendData(retries = 5, delay = 500)
DefaultRetries == 5
DefaultDelay == 500
\* setInterval(pollStatus, 2500); setInterval(pollServerStatus, 20000)
StatusIntervalMs == 2500
ServerIntervalMs == 20000
\* handleSaveSettings: for (let i = 0; i < 5; i++), setTimeout(r, 200)
ConfirmReads == 5
ConfirmDelayMs == 200

\* ----------------------------------------------------------------- strings

\* "Подключение..."
TextConnecting ==
  <<1055, 1086, 1076, 1082, 1083, 1102, 1095, 1077, 1085, 1080, 1077, 46, 46,
    46>>
\* "Ошибка API"
TextApiError ==
  <<1054, 1096, 1080, 1073, 1082, 1072, 32, 65, 80, 73>>
\* "Ошибка:"
MarkerOshibka ==
  <<1054, 1096, 1080, 1073, 1082, 1072, 58>>
\* "Ошибка: "
PrefixOshibka ==
  <<1054, 1096, 1080, 1073, 1082, 1072, 58, 32>>
\* "Готов к запуску"
TextReadyToLaunch ==
  <<1043, 1086, 1090, 1086, 1074, 32, 1082, 32, 1079, 1072, 1087, 1091, 1089,
    1082, 1091>>
\* "Готов к установке"
TextReadyToInstall ==
  <<1043, 1086, 1090, 1086, 1074, 32, 1082, 32, 1091, 1089, 1090, 1072, 1085,
    1086, 1074, 1082, 1077>>
\* "Готов"
TextReady ==
  <<1043, 1086, 1090, 1086, 1074>>
\* "Ошибка: требуется Java"
TextJavaRequired ==
  <<1054, 1096, 1080, 1073, 1082, 1072, 58, 32, 1090, 1088, 1077, 1073, 1091,
    1077, 1090, 1089, 1103, 32, 74, 97, 118, 97>>
\* "Загрузка"
TextDownloading ==
  <<1047, 1072, 1075, 1088, 1091, 1079, 1082, 1072>>
\* "Java не найдена"
TextJavaMissing ==
  <<74, 97, 118, 97, 32, 1085, 1077, 32, 1085, 1072, 1081, 1076, 1077, 1085,
    1072>>
\* "Для запуска Minecraft требуется Java. Пожалуйста, установите
\*  рекомендованную версию и попробуйте снова."
DefaultJavaErrorMessage ==
  <<1044, 1083, 1103, 32, 1079, 1072, 1087, 1091, 1089, 1082, 1072, 32, 77,
    105, 110, 101, 99, 114, 97, 102, 116, 32, 1090, 1088, 1077, 1073, 1091,
    1077, 1090, 1089, 1103, 32, 74, 97, 118, 97, 46, 32, 1055, 1086, 1078,
    1072, 1083, 1091, 1081, 1089, 1090, 1072, 44, 32, 1091, 1089, 1090, 1072,
    1085, 1086, 1074, 1080, 1090, 1077, 32, 1088, 1077, 1082, 1086, 1084,
    1077, 1085, 1076, 1086, 1074, 1072, 1085, 1085, 1091, 1102, 32, 1074,
    1077, 1088, 1089, 1080, 1102, 32, 1080, 32, 1087, 1086, 1087, 1088, 1086,
    1073, 1091, 1081, 1090, 1077, 32, 1089, 1085, 1086, 1074, 1072, 46>>

\* "Error:"
MarkerError ==
  <<69, 114, 114, 111, 114, 58>>
\* "требуется Java"
PhraseJavaRequired ==
  <<1090, 1088, 1077, 1073, 1091, 1077, 1090, 1089, 1103, 32, 74, 97, 118,
    97>>
\* "не найдена"
PhraseNotFound ==
  <<1085, 1077, 32, 1085, 1072, 1081, 1076, 1077, 1085, 1072>>
\* "не удалось"
PhraseFailed ==
  <<1085, 1077, 32, 1091, 1076, 1072, 1083, 1086, 1089, 1100>>
\* "Обнаружены изменения"
PhraseChangesDetected ==
  <<1054, 1073, 1085, 1072, 1088, 1091, 1078, 1077, 1085, 1099, 32, 1080,
    1079, 1084, 1077, 1085, 1077, 1085, 1080, 1103>>
\* "java"
PhraseJava ==
  <<106, 97, 118, 97>>
\* "Произошла ошибка"
ToastTitleError ==
  <<1055, 1088, 1086, 1080, 1079, 1086, 1096, 1083, 1072, 32, 1086, 1096,
    1080, 1073, 1082, 1072>>

\* two more status texts of the backend: "Запуск Java...", which mentions
\* Java without reporting an error, and "Error: disk full"
TextLaunchingJava ==
  <<1047, 1072, 1087, 1091, 1089, 1082, 32, 74, 97, 118, 97, 46, 46, 46>>
TextErrorDisk ==
  <<69, 114, 114, 111, 114, 58, 32, 100, 105, 115, 107, 32, 102, 117, 108,
    108>>

\* "Ошибка: нет сети", an error report that does not mention Java
TextErrorNetwork ==
  <<1054, 1096, 1080, 1073, 1082, 1072, 58, 32, 1085, 1077, 1090, 32, 1089,
    1077, 1090, 1080>>

\* -------------------------------------------- strings of the update footer

\* "Обновление готово к установке!"
TextUpdateReady ==
  <<1054, 1073, 1085, 1086, 1074, 1083, 1077, 1085, 1080, 1077, 32, 1075,
    1086, 1090, 1086, 1074, 1086, 32, 1082, 32, 1091, 1089, 1090, 1072,
    1085, 1086, 1074, 1082, 1077, 33>>
\* two progress messages as the main process may push them:
\* "Update available", "Downloading 50%"
TextUpdateAvailable ==
  <<85, 112, 100, 97, 116, 101, 32, 97, 118, 97, 105, 108, 97, 98, 108, 101>>
TextUpdateProgress ==
  <<68, 111, 119, 110, 108, 111, 97, 100, 105, 110, 103, 32, 53, 48, 37>>

\* ------------------------------------------- strings of the settings dialog

\* "Java выбрана"
TitleJavaSelected ==
  <<74, 97, 118, 97, 32, 1074, 1099, 1073, 1088, 1072, 1085, 1072>>
\* "/usr/bin/java" and "C:\jdk\javaw.exe", the executables the user may pick
PathJavaUsr ==
  <<47, 117, 115, 114, 47, 98, 105, 110, 47, 106, 97, 118, 97>>
PathJavaJdk ==
  <<67, 58, 92, 106, 100, 107, 92, 106, 97, 118, 97, 119, 46, 101, 120, 101>>
\* "Успех"
TitleSuccess ==
  <<1059, 1089, 1087, 1077, 1093>>
\* "Ошибка"
TitleError ==
  <<1054, 1096, 1080, 1073, 1082, 1072>>
\* "Требуется перезапуск"
TitleRestartRequired ==
  <<1058, 1088, 1077, 1073, 1091, 1077, 1090, 1089, 1103, 32, 1087, 1077,
    1088, 1077, 1079, 1072, 1087, 1091, 1089, 1082>>
\* "Настройки сохранены."
TextSettingsSaved ==
  <<1053, 1072, 1089, 1090, 1088, 1086, 1081, 1082, 1080, 32, 1089, 1086,
    1093, 1088, 1072, 1085, 1077, 1085, 1099, 46>>
\* "Не удалось сохранить настройки."
TextSaveFailed ==
  <<1053, 1077, 32, 1091, 1076, 1072, 1083, 1086, 1089, 1100, 32, 1089,
    1086, 1093, 1088, 1072, 1085, 1080, 1090, 1100, 32, 1085, 1072, 1089,
    1090, 1088, 1086, 1081, 1082, 1080, 46>>
\* "Настройки логов будут применены после перезапуска лаунчера."
TextRestartRequired ==
  <<1053, 1072, 1089, 1090, 1088, 1086, 1081, 1082, 1080, 32, 1083, 1086,
    1075, 1086, 1074, 32, 1073, 1091, 1076, 1091, 1090, 32, 1087, 1088,
    1080, 1084, 1077, 1085, 1077, 1085, 1099, 32, 1087, 1086, 1089, 1083,
    1077, 32, 1087, 1077, 1088, 1077, 1079, 1072, 1087, 1091, 1089, 1082,
    1072, 32, 1083, 1072, 1091, 1085, 1095, 1077, 1088, 1072, 46>>
\* "Не удалось изменить статус мода."
TextToggleFailed ==
  <<1053, 1077, 32, 1091, 1076, 1072, 1083, 1086, 1089, 1100, 32, 1080,
    1079, 1084, 1077, 1085, 1080, 1090, 1100, 32, 1089, 1090, 1072, 1090,
    1091, 1089, 32, 1084, 1086, 1076, 1072, 46>>
\* "Не удалось загрузить данные настроек."
TextLoadFailed ==
  <<1053, 1077, 32, 1091, 1076, 1072, 1083, 1086, 1089, 1100, 32, 1079,
    1072, 1075, 1088, 1091, 1079, 1080, 1090, 1100, 32, 1076, 1072, 1085,
    1085, 1099, 1077, 32, 1085, 1072, 1089, 1090, 1088, 1086, 1077, 1082, 46>>
\* "Kristory Client"
FolderName ==
  <<75, 114, 105, 115, 116, 111, 114, 121, 32, 67, 108, 105, 101, 110, 116>>
\* a folder picked in the native dialog, Windows style: "D:\Games"
PathGames ==
  <<68, 58, 92, 71, 97, 109, 101, 115>>
\* a picked folder that is the client folder already, in lower case:
\* "/opt/kristory client"
PathClientLower ==
  <<47, 111, 112, 116, 47, 107, 114, 105, 115, 116, 111, 114, 121, 32, 99,
    108, 105, 101, 110, 116>>
\* the game directory of an installed client, as the backend reports it:
\* "D:\Games\Kristory Client"
PathInstalled ==
  <<68, 58, 92, 71, 97, 109, 101, 115, 92, 75, 114, 105, 115, 116, 111, 114,
    121, 32, 67, 108, 105, 101, 110, 116>>

\* ----------------------------------------- strings of the download handler

\* "Отменено"
TitleCancelled ==
  <<1054, 1090, 1084, 1077, 1085, 1077, 1085, 1086>>
\* "Вы не выбрали папку для установки."
TextNoFolderPicked ==
  <<1042, 1099, 32, 1085, 1077, 32, 1074, 1099, 1073, 1088, 1072, 1083, 1080,
    32, 1087, 1072, 1087, 1082, 1091, 32, 1076, 1083, 1103, 32, 1091, 1089,
    1090, 1072, 1085, 1086, 1074, 1082, 1080, 46>>
\* "Не удалось сохранить путь: "
PrefixPathNotSaved ==
  <<1053, 1077, 32, 1091, 1076, 1072, 1083, 1086, 1089, 1100, 32, 1089, 1086,
    1093, 1088, 1072, 1085, 1080, 1090, 1100, 32, 1087, 1091, 1090, 1100, 58,
    32>>
\* "Не удалось сохранить путь к папке"
TextPathNotSaved ==
  <<1053, 1077, 32, 1091, 1076, 1072, 1083, 1086, 1089, 1100, 32, 1089, 1086,
    1093, 1088, 1072, 1085, 1080, 1090, 1100, 32, 1087, 1091, 1090, 1100, 32,
    1082, 32, 1087, 1072, 1087, 1082, 1077>>
\* "Failed to fetch", the message of a rejected fetch
TextFailedToFetch ==
  <<70, 97, 105, 108, 101, 100, 32, 116, 111, 32, 102, 101, 116, 99, 104>>
\* "Загрузка началась"
TitleDownloadStarted ==
  <<1047, 1072, 1075, 1088, 1091, 1079, 1082, 1072, 32, 1085, 1072, 1095,
    1072, 1083, 1072, 1089, 1100>>
\* "Вы можете следить за статусом в лаунчере."
TextFollowStatus ==
  <<1042, 1099, 32, 1084, 1086, 1078, 1077, 1090, 1077, 32, 1089, 1083, 1077,
    1076, 1080, 1090, 1100, 32, 1079, 1072, 32, 1089, 1090, 1072, 1090, 1091,
    1089, 1086, 1084, 32, 1074, 32, 1083, 1072, 1091, 1085, 1095, 1077, 1088,
    1077, 46>>
\* "Ошибка загрузки"
TitleDownloadError ==
  <<1054, 1096, 1080, 1073, 1082, 1072, 32, 1079, 1072, 1075, 1088, 1091,
    1079, 1082, 1080>>
\* "Failed to start download process"
TextDownloadNotStarted ==
  <<70, 97, 105, 108, 101, 100, 32, 116, 111, 32, 115, 116, 97, 114, 116, 32,
    100, 111, 119, 110, 108, 111, 97, 100, 32, 112, 114, 111, 99, 101, 115,
    115>>

\* s.startsWith(p)
StartsWith(s, p) ==
  /\ Len(p) <= Len(s)
  /\ SubSeq(s, 1, Len(p)) = p

\* the positions at which p occurs in s
Occurrences(s, p) ==
  {i \in 1..(Len(s) - Len(p) + 1) : SubSeq(s, i, i + Len(p) - 1) = p}

\* s.includes(p)
Includes(s, p) == Occurrences(s, p) # {}

\* s.replace(p, r) with a string pattern: the first occurrence only
ReplaceFirst(s, p, r) ==
  IF ~Includes(s, p) THEN s
  ELSE LET i == CHOOSE k \in Occurrences(s, p) :
                  \A j \in Occurrences(s, p) : k <= j
       IN  SubSeq(s, 1, i - 1) \o r \o SubSeq(s, i + Len(p), Len(s))

\* one character of s.toLowerCase(): Latin A-Z, Cyrillic А-Я and Ё
LowerChar(c) ==
  IF (c >= 65 /\ c <= 90) \/ (c >= 1040 /\ c <= 1071) THEN c + 32
  ELSE IF c = 1025 THEN 1105
  ELSE c

\* s.toLowerCase()
ToLowerCase(s) == [i \in 1..Len(s) |-> LowerChar(s[i])]

\* the characters that separate path segments: backslash and slash
Separators == {92, 47}

\* path.endsWith('\\') || path.endsWith('/')
EndsWithSeparator(path) ==
  /\ Len(path) > 0
  /\ path[Len(path)] \in Separators

\* path.replace(/[\\/]+$/, '')
StripTrailingSeparators(path) ==
  LET kept == {i \in 1..Len(path) : path[i] \notin Separators}
      last == IF kept = {} THEN 0
              ELSE CHOOSE i \in kept : \A j \in kept : j <= i
  IN  SubSeq(path, 1, last)

\* /([\\/]|^)Kristory Client([\\/]|$)/i.test(path)
HasClientFolder(path) ==
  \E i \in Occurrences(ToLowerCase(path), ToLowerCase(FolderName)) :
    /\ i = 1 \/ path[i - 1] \in Separators
    /\ i + Len(FolderName) = Len(path) + 1
         \/ path[i + Len(FolderName)] \in Separators

\* finalPath of handleSelectGameDirectory: the client subfolder is appended
\* unless the path names it already
FinalPath(path) ==
  IF HasClientFolder(path) THEN path
  ELSE StripTrailingSeparators(path)
         \o (IF EndsWithSeparator(path) THEN <<>>
             ELSE IF Includes(path, <<92>>) THEN <<92>> ELSE <<47>>)
         \o FolderName

\* finalPath of handleDownloadClick: trailing separators are removed, then
\* the client subfolder is appended unless /kristory client/i matches
\* anywhere in the path
DownloadFinalPath(path) ==
  LET stripped == StripTrailingSeparators(path)
  IN  IF Includes(ToLowerCase(stripped), ToLowerCase(FolderName))
      THEN stripped
      ELSE stripped
             \o (IF Includes(stripped, <<92>>) THEN <<92>> ELSE <<47>>)
             \o FolderName

\* -------------------------------------------------------------- JSON values

\* JSON null, and the null held by a useState<... | null>
NullJson ==
  [type |-> "null", accounts |-> [type |-> "undefined", items |-> <<>>],
   last_selected_uuid |-> "null", game_directory |-> <<>>]

\* selectedAccount === null
NoAccount == [uuid |-> "null", username |-> "null"]

Account1 == [uuid |-> "u1", username |-> "alex"]
Account2 == [uuid |-> "u2", username |-> "steve"]

\* Array.isArray(v)
IsArray(v) == v.type = "array"

\* bodies GET /api/config can answer with a 2xx: valid configurations ...
ValidConfigs ==
  { [type |-> "object", accounts |-> [type |-> "array", items |-> <<>>],
     last_selected_uuid |-> "null", game_directory |-> <<>>],
    [type |-> "object",
     accounts |-> [type |-> "array", items |-> <<Account1, Account2>>],
     last_selected_uuid |-> "u2", game_directory |-> PathInstalled],
    [type |-> "object",
     accounts |-> [type |-> "array", items |-> <<Account1, Account2>>],
     last_selected_uuid |-> "u3", game_directory |-> <<>>] }

\* ... and bodies that are JSON but no configuration: null, an object without
\* accounts, an object whose accounts is a string
InvalidConfigs ==
  { NullJson,
    [type |-> "object", accounts |-> [type |-> "undefined", items |-> <<>>],
     last_selected_uuid |-> "null", game_directory |-> <<>>],
    [type |-> "object", accounts |-> [type |-> "string", items |-> <<>>],
     last_selected_uuid |-> "u1", game_directory |-> <<>>] }

\* what an awaited fetch of /api/config can come to: the fetch rejects, the
\* status is not 2xx, the body is no JSON, or the body parses
ConfigResponses ==
  { [kind |-> k, body |-> NullJson] : k \in {"reject", "non2xx", "badjson"} }
    \cup { [kind |-> "json", body |-> b] :
             b \in ValidConfigs \cup InvalidConfigs }

\* mutant of ConfigAccepted: the validation without Array.isArray
ConfigAccepted_AnyObject(resp) ==
  /\ resp.kind = "json"
  /\ resp.body.type # "null"

\* the try block of fetchBackendData reaches setLauncherConfig
ConfigAccepted(resp) ==
  /\ resp.kind = "json"
  /\ resp.body.type # "null"
  /\ IsArray(resp.body.accounts)

\* fetchedAccounts.find(acc => acc.uuid === uuid) || fetchedAccounts[0],
\* null for an empty list
\* mutant of SelectAccount: last_selected_uuid is not looked at
SelectAccount_First(items, uuid) ==
  IF Len(items) > 0 THEN items[1] ELSE NoAccount

SelectAccount(items, uuid) ==
  IF Len(items) > 0
  THEN IF \E i \in 1..Len(items) : items[i].uuid = uuid
       THEN LET i == CHOOSE k \in 1..Len(items) :
                       /\ items[k].uuid = uuid
                       /\ \A j \in 1..(k - 1) : items[j].uuid # uuid
            IN  items[i]
       ELSE items[1]
  ELSE NoAccount

\* ---------------------------------------------------------- launcher status

\* useState<LauncherStatus>(...) initial value
InitialLauncherStatus ==
  [is_processing |-> FALSE, status_text |-> TextConnecting, progress |-> 0,
   version_info |-> [minecraft |-> "N/A", fabric |-> "N/A"],
   is_game_installed |-> FALSE]

\* bodies GET /api/status can answer with a 2xx
StatusPayloads ==
  { [is_processing |-> FALSE, status_text |-> TextReady, progress |-> 0,
     version_info |-> [minecraft |-> "1.21", fabric |-> "0.16"],
     is_game_installed |-> TRUE],
    [is_processing |-> TRUE, status_text |-> TextDownloading, progress |-> 40,
     version_info |-> [minecraft |-> "1.21", fabric |-> "0.16"],
     is_game_installed |-> FALSE],
    [is_processing |-> FALSE, status_text |-> TextJavaRequired, progress |-> 0,
     version_info |-> [minecraft |-> "1.21", fabric |-> "0.16"],
     is_game_installed |-> TRUE],
    [is_processing |-> FALSE, status_text |-> PhraseChangesDetected,
     progress |-> 100,
     version_info |-> [minecraft |-> "1.21", fabric |-> "0.16"],
     is_game_installed |-> TRUE] }

\* what an awaited fetch of /api/status can come to
StatusResponses ==
  { [kind |-> k, body |-> InitialLauncherStatus] :
      k \in {"reject", "non2xx", "badjson"} }
    \cup { [kind |-> "json", body |-> b] : b \in StatusPayloads }

\* status texts for the status effect: with and without an error marker,
\* with and without a mention of Java
ClassifierTexts ==
  {TextReady, TextJavaRequired, PhraseChangesDetected, TextLaunchingJava,
   TextErrorDisk, TextErrorNetwork, TextJavaMissing}

\* GET /api/status answers that carry them
ClassifierResponses ==
  { [kind |-> "json",
     body |-> [is_processing |-> FALSE, status_text |-> text, progress |-> 0,
               version_info |-> [minecraft |-> "1.21", fabric |-> "0.16"],
               is_game_installed |-> TRUE]] : text \in ClassifierTexts }

\* mutant of IsRealError: every text that mentions Java counts as an error
IsRealError_AnyJava(statusText) ==
  \/ StartsWith(statusText, MarkerOshibka)
  \/ StartsWith(statusText, MarkerError)
  \/ Includes(statusText, PhraseJavaRequired)
  \/ Includes(statusText, PhraseNotFound)
  \/ Includes(statusText, PhraseFailed)
  \/ Includes(statusText, PhraseChangesDetected)
  \/ Includes(ToLowerCase(statusText), PhraseJava)

\* isRealError of the status effect
IsRealError(statusText) ==
  \/ StartsWith(statusText, MarkerOshibka)
  \/ StartsWith(statusText, MarkerError)
  \/ Includes(statusText, PhraseJavaRequired)
  \/ Includes(statusText, PhraseNotFound)
  \/ Includes(statusText, PhraseFailed)
  \/ Includes(statusText, PhraseChangesDetected)

\* mutant of MentionsJava: the text is searched as it is
MentionsJava_CaseSensitive(statusText) == Includes(statusText, PhraseJava)

\* statusText.toLowerCase().includes("java")
MentionsJava(statusText) == Includes(ToLowerCase(statusText), PhraseJava)

\* the toast of the status effect
ErrorToast(statusText) ==
  [title |-> ToastTitleError,
   description |-> ReplaceFirst(statusText, PrefixOshibka, <<>>),
   variant |-> "destructive"]

\* the status line under the action button
StatusLine(ls) ==
  IF ls.is_processing
  THEN ls.status_text
  ELSE IF Includes(ls.status_text, MarkerOshibka)
       THEN ReplaceFirst(ls.status_text, PrefixOshibka, <<>>)
       ELSE IF ls.is_game_installed THEN TextReadyToLaunch
            ELSE TextReadyToInstall

\* ------------------------------------------------------------ server status

\* useState<ServerStatus | null>(null)
NoServerStatus == [known |-> FALSE, online |-> FALSE, players_online |-> 0]

\* bodies GET /api/server-status can answer with a 2xx
ServerPayloads ==
  { [known |-> TRUE, online |-> TRUE, players_online |-> 3],
    [known |-> TRUE, online |-> FALSE, players_online |-> 0] }

\* setServerStatus({ online: false })
ServerOffline == [known |-> TRUE, online |-> FALSE, players_online |-> 0]

\* what an awaited fetch of /api/server-status can come to
ServerResponses ==
  { [kind |-> k, body |-> NoServerStatus] :
      k \in {"reject", "non2xx", "badjson"} }
    \cup { [kind |-> "json", body |-> b] : b \in ServerPayloads }

\* ------------------------------------------------------------- Java check

\* error bodies GET /api/check-java can answer with a non-2xx
JavaErrors == {TextJavaMissing}

\* what an awaited fetch of /api/check-java can come to
JavaResponses ==
  { [kind |-> k, error |-> <<>>] : k \in {"reject", "ok", "badjson"} }
    \cup { [kind |-> "non2xx", error |-> e] : e \in JavaErrors }

\* -------------------------------------------- values of the settings dialog

\* useState<GameSettings>({ server_address: "", enable_logs: false,
\* game_directory: "" })
DefaultGameSettings ==
  [server_address |-> <<>>, enable_logs |-> FALSE, game_directory |-> <<>>]

\* useState<JavaSettings>({ path: "", min_mem: 1024, max_mem: 4096 })
DefaultJavaSettings == [path |-> <<>>, min_mem |-> 1024, max_mem |-> 4096]

\* two managed mods as GET /api/mods lists them
ModList(statusA, statusB) ==
  << [filename |-> "sodium.jar", name |-> "Sodium", description |-> "fast",
      status |-> statusA],
     [filename |-> "iris.jar", name |-> "Iris", description |-> "",
      status |-> statusB] >>

\* a key of the configuration that is missing, and one that is there
Absent == [present |-> FALSE]

Present(value) == [present |-> TRUE, value |-> value]

\* the bodies of the three responses fetchData waits for: an installed
\* client, a fresh installation without settings, a client with logs on
SettingsPayloads ==
  { [accounts |-> <<Account1>>,
     mods |-> ModList("enabled", "disabled"),
     config |-> [java_settings |-> Present(DefaultJavaSettings),
                 game_settings |->
                   Present([DefaultGameSettings EXCEPT
                              !.game_directory = PathInstalled])]],
    [accounts |-> <<>>,
     mods |-> <<>>,
     config |-> [java_settings |-> Absent, game_settings |-> Absent]],
    [accounts |-> <<Account1, Account2>>,
     mods |-> ModList("disabled", "disabled"),
     config |-> [java_settings |-> Absent,
                 game_settings |->
                   Present([DefaultGameSettings EXCEPT
                              !.enable_logs = TRUE])]] }

\* how the Promise.all of fetchData settles
SettingsResponses ==
  {[kind |-> "reject"]} \cup
  {[kind |-> "json", body |-> b] : b \in SettingsPayloads}

\* the folders the user may pick in the native dialog
PickedPaths == {PathGames, PathClientLower}

\* the Java executables the user may pick, in the file dialog or in the list
JavaPaths == {PathJavaUsr, PathJavaJdk}

\* useState(8192) of maxSystemRam, also the value of the catch block
DefaultMaxSystemRam == 8192

\* the lower end of the RAM slider and its step
SliderMin == 512

SliderStep == 512

\* total_ram_mb of GET /api/system-info: a 4 GB and a 16 GB machine
TotalRamValues == {4096, 16384}

\* how the fetch of /api/system-info settles
SystemInfoResponses ==
  {[kind |-> "reject"], [kind |-> "non2xx"]} \cup
  {[kind |-> "json", total_ram_mb |-> v] : v \in TotalRamValues}

\* Math.floor(data.total_ram_mb * 0.8)
AvailableRam(total) == (total * 8) \div 10

\* the thumb positions tried on the slider: values on the step grid from
\* SliderMin that do not exceed max
SliderStops(max) ==
  {v \in {512, 2048, 4096} :
     /\ v >= SliderMin
     /\ v <= max
     /\ (v - SliderMin) % SliderStep = 0}

\* how a POST settles: 2xx, another status, or a rejected fetch
PostResponses == {"ok", "non2xx", "reject"}

\* how a GET /api/config of the confirmation loop settles; a 2xx body may
\* lack game_settings, or carry any of the directories
ReadResponses ==
  {[kind |-> "reject"], [kind |-> "non2xx"],
   [kind |-> "json", game_settings |-> Absent]} \cup
  {[kind |-> "json",
    game_settings |-> Present([DefaultGameSettings EXCEPT
                                 !.game_directory = d])] :
     d \in {<<>>, PathInstalled, PathClientLower}}

\* the toasts of the dialog
ToastSaved ==
  [title |-> TitleSuccess, description |-> TextSettingsSaved,
   variant |-> "default"]

ToastRestartRequired ==
  [title |-> TitleRestartRequired, description |-> TextRestartRequired,
   variant |-> "default"]

ToastSaveFailed ==
  [title |-> TitleError, description |-> TextSaveFailed,
   variant |-> "destructive"]

ToastToggleFailed ==
  [title |-> TitleError, description |-> TextToggleFailed,
   variant |-> "destructive"]

ToastLoadFailed ==
  [title |-> TitleError, description |-> TextLoadFailed,
   variant |-> "destructive"]

\* toast({ title: "Java выбрана", description: path })
ToastJavaSelected(path) ==
  [title |-> TitleJavaSelected, description |-> path, variant |-> "default"]

\* what selectDirectory resolves to: null, or the folder picked
DirectoryPicks ==
  {[picked |-> FALSE, path |-> <<>>]} \cup
  {[picked |-> TRUE, path |-> p] : p \in PickedPaths}

\* the toasts of handleDownloadClick and startVerificationProcess
ToastCancelled ==
  [title |-> TitleCancelled, description |-> TextNoFolderPicked,
   variant |-> "default"]

\* error.message is the text thrown for a status other than 2xx, or the
\* message of the rejected fetch
ToastPathNotSaved(resp) ==
  [title |-> TitleError,
   description |-> PrefixPathNotSaved \o
     (IF resp = "non2xx" THEN TextPathNotSaved ELSE TextFailedToFetch),
   variant |-> "destructive"]

ToastDownloadStarted ==
  [title |-> TitleDownloadStarted, description |-> TextFollowStatus,
   variant |-> "default"]

\* errorData.error || 'Failed to start download process', with a body that
\* has no error field; the message of the rejected fetch otherwise
ToastDownloadError(resp) ==
  [title |-> TitleDownloadError,
   description |->
     (IF resp = "non2xx" THEN TextDownloadNotStarted ELSE TextFailedToFetch),
   variant |-> "destructive"]

\* ------------------------------------------------------------------- state

\* ------------------------------------------------- add-account dialog

\* what is typed into the email input
EmailTyped ==
  <<117, 115, 101, 114, 64, 101, 120, 97, 109, 112, 108, 101, 46, 99, 111,
    109>>

\* what is typed into the password input
PasswordTyped ==
  <<115, 101, 99, 114, 101, 116>>

\* the username the backend answers with
UsernameAlex ==
  <<97, 108, 101, 120>>

\* `Аккаунт ${data.username} добавлен.`: "Аккаунт "
PrefixAccount ==
  <<1040, 1082, 1082, 1072, 1091, 1085, 1090, 32>>

\* " добавлен."
SuffixAdded ==
  <<32, 1076, 1086, 1073, 1072, 1074, 1083, 1077, 1085, 46>>

\* "Не удалось добавить аккаунт"
TextAccountNotAdded ==
  <<1053, 1077, 32, 1091, 1076, 1072, 1083, 1086, 1089, 1100, 32, 1076, 1086,
    1073, 1072, 1074, 1080, 1090, 1100, 32, 1072, 1082, 1082, 1072, 1091,
    1085, 1090>>

\* an error text of the backend
TextBadCredentials ==
  <<73, 110, 118, 97, 108, 105, 100, 32, 99, 114, 101, 100, 101, 110, 116,
    105, 97, 108, 115>>

\* the answers to POST /api/auth/elyby: 2xx with the account, non-2xx with
\* and without an error text, a rejected fetch
AuthResponses ==
  {[kind |-> "ok", username |-> UsernameAlex, error |-> <<>>],
   [kind |-> "non2xx", username |-> <<>>, error |-> TextBadCredentials],
   [kind |-> "non2xx", username |-> <<>>, error |-> <<>>],
   [kind |-> "reject", username |-> <<>>, error |-> <<>>]}

ToastAccountAdded(username) ==
  [title |-> TitleSuccess,
   description |-> PrefixAccount \o username \o SuffixAdded,
   variant |-> "default"]

\* error.message: data.error || 'Не удалось добавить аккаунт', or the
\* message of the rejected fetch
ToastAccountError(resp) ==
  [title |-> TitleError,
   description |->
     (IF resp.kind = "reject" THEN TextFailedToFetch
      ELSE IF resp.error # <<>> THEN resp.error
      ELSE TextAccountNotAdded),
   variant |-> "destructive"]

\* useState("") twice, useState(false), and open={isAddAccountOpen}
ClosedAddAccount ==
  [open |-> FALSE, email |-> <<>>, password |-> <<>>, isLoading |-> FALSE,
   calls |-> <<>>]

VARIABLES
  phase,            \* "created" before the effects have run, then "mounted"
  accounts,         \* useState<Account[]>
  selectedAccount,  \* useState<Account | null>
  launcherStatus,   \* useState<LauncherStatus>
  serverStatus,     \* useState<ServerStatus | null>
  launcherConfig,   \* useState<LauncherConfig | null>
  isJavaErrorOpen,  \* useState(false)
  javaErrorMessage, \* useState(default message)
  toasts,           \* the toasts raised through useToast, oldest first
  chains,           \* the fetchBackendData call chains
  javaPending,      \* GET /api/check-java requests in flight
  timers,           \* the two setInterval timers
  statusLog,        \* launcher-status polls in issue order
  serverLog,        \* server-status polls in issue order
  statusFailRun,    \* launcher-status responses that failed in a row, by
                    \* arrival
  serverFailRun,    \* server-status responses that failed in a row, by arrival
  sinceTerminal,    \* a chain gave up and nothing has succeeded since
  sawInvalidConfig, \* a 2xx body that is no configuration has been received
  javaErrorDismissed, \* the user has closed the Java modal at least once
  selectWrite,      \* the POST /api/config of handleSelectAccount
  download,         \* the handleDownloadClick call
  lastStatusPayload, \* the body of the GET /api/status answer that pollStatus
                    \* has used last
  sameTextPolls,    \* how many answers pollStatus has used that carried the
                    \* status text already held
  addAccount,       \* the AddAccountDialog of Home: open, the two inputs,
                    \* isLoading, and its POST /api/auth/elyby calls
  updateMessage,    \* useState('')
  isUpdateReady,    \* useState(false)
  restartRequested, \* window.electronAPI.restartApp() has been called
  listeners,        \* the callbacks registered on window.electronAPI
  settingsOpen,     \* useState(false) of Home: the open prop of the dialog
  dataPending,      \* fetchData calls of the dialog in flight
  settingsAccounts, \* useState<Account[]> of the dialog
  mods,             \* useState<Mod[]>
  javaSettings,     \* useState<JavaSettings>
  maxSystemRam,     \* useState(8192)
  systemInfoPending, \* fetchSystemInfo calls in flight
  initialGameSettings, \* useState<GameSettings>
  gameSettings,     \* useState<GameSettings>
  saves,            \* the handleSaveSettings calls
  toggles           \* the handleToggleMod calls

\* the state of the update footer
updateVars == <<updateMessage, isUpdateReady, restartRequested, listeners>>

\* what pollStatus has done with the answers it got
pollHistory == <<lastStatusPayload, sameTextPolls>>

\* the record of what handlers of Home have done: the Java modal closed,
\* the calls of handleSelectAccount and handleDownloadClick, the answers
\* pollStatus has used; and the add-account dialog Home renders
handlerVars ==
  <<javaErrorDismissed, selectWrite, download, pollHistory, addAccount>>

\* the state of the settings dialog
dialogVars ==
  <<settingsOpen, dataPending, settingsAccounts, mods, javaSettings,
    maxSystemRam, systemInfoPending, initialGameSettings, gameSettings,
    saves, toggles>>

\* the state of the dialog that its save and toggle handlers leave alone
ramVars == <<maxSystemRam, systemInfoPending>>

\* the state of Home that the add-account dialog does not reach
homeCore ==
  <<phase, accounts, selectedAccount, launcherStatus, serverStatus,
    launcherConfig, isJavaErrorOpen, javaErrorMessage, javaPending, timers,
    statusLog, serverLog, statusFailRun, serverFailRun, sinceTerminal,
    sawInvalidConfig, updateVars, javaErrorDismissed, selectWrite, download,
    pollHistory>>

\* the state of Home that the settings dialog does not reach
homeRest ==
  <<phase, accounts, selectedAccount, launcherStatus, serverStatus,
    launcherConfig, isJavaErrorOpen, javaErrorMessage, javaPending, timers,
    statusLog, serverLog, statusFailRun, serverFailRun, sinceTerminal,
    sawInvalidConfig, updateVars, handlerVars>>

vars ==
  <<phase, accounts, selectedAccount, launcherStatus, serverStatus,
    launcherConfig, isJavaErrorOpen, javaErrorMessage, toasts, chains,
    javaPending, timers, statusLog, serverLog, statusFailRun, serverFailRun,
    sinceTerminal, sawInvalidConfig, updateVars, handlerVars, dialogVars>>

ChainIds == 1..MaxChains

IdleChain ==
  [st |-> "idle", retries |-> 0, delay |-> 0, attempts |-> 0,
   delays |-> <<>>, javaChecks |-> 0]

SaveIds == 1..MaxSaves

\* the call records of a session of the debug tab
LogSaveIds == 1..MaxLogSaves

\* a handleSaveSettings call: where it stands, its arguments, the
\* initialGameSettings.enable_logs its closure holds, the loop counter i;
\* then what it has done so far: how its POST settled, re-reads issued,
\* whether a re-read came back 2xx with the written game directory, whether
\* the fetch of a re-read was rejected, 200 ms waits scheduled, toasts
\* raised, onSettingsChange() calls, and what the dialog held when the user
\* action began: the game directory for game_settings, the Java path for
\* java_settings
IdleSave ==
  [st |-> "idle", key |-> "none", data |-> DefaultGameSettings,
   initialLogs |-> FALSE, i |-> 0, write |-> "none", reads |-> 0,
   matched |-> FALSE, rejected |-> FALSE, waits |-> <<>>, notices |-> <<>>,
   changes |-> 0, heldBefore |-> <<>>, caller |-> "none"]

ToggleIds == 1..MaxToggles

\* a handleToggleMod call: its arguments and its originalMods
IdleToggle ==
  [st |-> "idle", filename |-> "none", enabled |-> FALSE,
   originalMods |-> <<>>]

\* the POST of a handleSelectAccount call: where it stands and the uuid it
\* writes as last_selected_uuid
IdleSelectWrite == [st |-> "idle", uuid |-> "null"]

\* a handleDownloadClick call: where it stands, the finalPath it writes, the
\* chain its fetchBackendData() runs on, the launcherStatus.is_processing
\* its closure holds; then whether the configuration it has re-read carried
\* the written path
IdleDownload ==
  [st |-> "idle", path |-> <<>>, chain |-> 0, processing |-> FALSE,
   echoed |-> FALSE]

IdleTimer == [active |-> FALSE, period |-> 0, cb |-> "none", fired |-> 0]

InitWith(saveRecords) ==
  /\ phase = "created"
  /\ accounts = <<>>
  /\ selectedAccount = NoAccount
  /\ launcherStatus = InitialLauncherStatus
  /\ serverStatus = NoServerStatus
  /\ launcherConfig = NullJson
  /\ isJavaErrorOpen = FALSE
  /\ javaErrorMessage = DefaultJavaErrorMessage
  /\ toasts = <<>>
  /\ chains = [c \in ChainIds |-> IdleChain]
  /\ javaPending = 0
  /\ timers = [t \in {"status", "server"} |-> IdleTimer]
  /\ statusLog = <<>>
  /\ serverLog = <<>>
  /\ statusFailRun = 0
  /\ serverFailRun = 0
  /\ sinceTerminal = FALSE
  /\ sawInvalidConfig = FALSE
  /\ javaErrorDismissed = FALSE
  /\ selectWrite = IdleSelectWrite
  /\ download = IdleDownload
  /\ lastStatusPayload = InitialLauncherStatus
  /\ sameTextPolls = 0
  /\ addAccount = ClosedAddAccount
  /\ updateMessage = <<>>
  /\ isUpdateReady = FALSE
  /\ restartRequested = FALSE
  /\ listeners = {}
  /\ settingsOpen = FALSE
  /\ dataPending = 0
  /\ settingsAccounts = <<>>
  /\ mods = <<>>
  /\ javaSettings = DefaultJavaSettings
  /\ maxSystemRam = DefaultMaxSystemRam
  /\ systemInfoPending = 0
  /\ initialGameSettings = DefaultGameSettings
  /\ gameSettings = DefaultGameSettings
  /\ saves = [s \in 1..saveRecords |-> IdleSave]
  /\ toggles = [t \in ToggleIds |-> IdleToggle]

Init == InitWith(MaxSaves)

\* the same state, with room for the saves of one session of the debug tab
InitLogs == InitWith(MaxLogSaves)

\* ------------------------------------------------- status effects of Home

\* mutant of StatusEffect: handleJavaError sets the message and leaves the
\* modal as it is
StatusEffect_MessageOnly(oldText, newText) ==
  IF newText # oldText /\ IsRealError(newText)
  THEN IF MentionsJava(newText)
       THEN /\ javaErrorMessage' = newText
            /\ UNCHANGED <<isJavaErrorOpen, toasts>>
       ELSE /\ toasts' = Append(toasts, ErrorToast(newText))
            /\ UNCHANGED <<javaErrorMessage, isJavaErrorOpen>>
  ELSE UNCHANGED <<javaErrorMessage, isJavaErrorOpen, toasts>>

\* mutant of StatusEffect: the effect runs after every setLauncherStatus,
\* whether the text has changed or not
StatusEffect_EveryRender(oldText, newText) ==
  IF IsRealError(newText)
  THEN IF MentionsJava(newText)
       THEN /\ javaErrorMessage' = newText
            /\ isJavaErrorOpen' = TRUE
            /\ UNCHANGED toasts
       ELSE /\ toasts' = Append(toasts, ErrorToast(newText))
            /\ UNCHANGED <<javaErrorMessage, isJavaErrorOpen>>
  ELSE UNCHANGED <<javaErrorMessage, isJavaErrorOpen, toasts>>

\* handleJavaError(message) and the status effect: what a change of
\* launcherStatus.status_text from oldText to newText does to the Java modal
\* and the toasts (the effect runs only when the text has changed)
StatusEffect(oldText, newText) ==
  IF newText # oldText /\ IsRealError(newText)
  THEN IF MentionsJava(newText)
       THEN /\ javaErrorMessage' = newText
            /\ isJavaErrorOpen' = TRUE
            /\ UNCHANGED toasts
       ELSE /\ toasts' = Append(toasts, ErrorToast(newText))
            /\ UNCHANGED <<javaErrorMessage, isJavaErrorOpen>>
  ELSE UNCHANGED <<javaErrorMessage, isJavaErrorOpen, toasts>>

\* setLauncherStatus(ls), with the effects the render after it runs
SetLauncherStatus(ls) ==
  /\ launcherStatus' = ls
  /\ StatusEffect(launcherStatus.status_text, ls.status_text)

\* --------------------------------------------------- bootstrap retry fetcher

\* mutants of MayRetry: retries >= 0 retries once more, retries > 1 once less
MayRetry_Inclusive(retries) == retries >= 0

MayRetry_Strict(retries) == retries > 1

\* retries > 0 in the catch block
MayRetry(retries) == retries > 0

\* the arguments of the rescheduled call: retries - 1, delay * 2
NextRetries(retries) == retries - 1

\* mutants of NextDelay: a linear backoff, and no backoff
NextDelay_Linear(delay) == delay + 500

NextDelay_Constant(delay) == delay

NextDelay(delay) == delay * 2

\* fetchBackendData(retries, delay) up to its first await: the GET is issued
Fetching(ch, retries, delay) ==
  [ch EXCEPT !.st = "fetching", !.retries = retries, !.delay = delay,
             !.attempts = @ + 1]

\* mutant of Rescheduled: the rescheduled call gets the retries it had
Rescheduled_SameRetries(ch) ==
  [ch EXCEPT !.st = "waiting", !.delay = NextDelay(ch.delay),
             !.delays = Append(@, ch.delay)]

\* the catch block with retries left: setTimeout(() => fetchBackendData(
\* retries - 1, delay * 2), delay)
Rescheduled(ch) ==
  [ch EXCEPT !.st = "waiting", !.retries = NextRetries(ch.retries),
             !.delay = NextDelay(ch.delay),
             !.delays = Append(@, ch.delay)]

\* mutant of CheckJavaCalled: the call placed after the try/catch
CheckJavaCalled_Always(accepted) == TRUE

\* whether an attempt calls checkJavaVersion(): the call is the last
\* statement of the try block, so only an accepted attempt makes it
CheckJavaCalled(accepted) == accepted

\* the GET /api/check-java requests one attempt issues
JavaCalls(accepted) == IF CheckJavaCalled(accepted) THEN 1 ELSE 0

\* the success path: the configuration seeds the state, then checkJavaVersion()
ConfigSuccess(c, body) ==
  /\ launcherConfig' = body
  /\ accounts' = body.accounts.items
  /\ selectedAccount' =
       SelectAccount(body.accounts.items, body.last_selected_uuid)
  /\ chains' = [chains EXCEPT ![c].st = "ok",
                              ![c].javaChecks = @ + JavaCalls(TRUE)]
  /\ javaPending' = javaPending + JavaCalls(TRUE)
  /\ sinceTerminal' = FALSE
  /\ UNCHANGED <<launcherStatus, isJavaErrorOpen, javaErrorMessage, toasts>>

\* the catch block: reschedule while retries are left, else give up
ConfigFailure(c) ==
  /\ javaPending' = javaPending + JavaCalls(FALSE)
  /\ IF MayRetry(chains[c].retries)
     THEN /\ chains' = [chains EXCEPT ![c] =
                          [Rescheduled(@) EXCEPT
                             !.javaChecks = @ + JavaCalls(FALSE)]]
          /\ UNCHANGED <<launcherStatus, accounts, selectedAccount,
                         sinceTerminal, isJavaErrorOpen, javaErrorMessage,
                         toasts>>
     ELSE /\ chains' = [chains EXCEPT ![c].st = "failed",
                                      ![c].javaChecks = @ + JavaCalls(FALSE)]
          /\ SetLauncherStatus(
               [launcherStatus EXCEPT !.status_text = TextApiError])
          /\ accounts' = <<>>
          /\ selectedAccount' = NoAccount
          /\ sinceTerminal' = TRUE

\* await fetchBackendData() of handleDownloadClick: the promise of the call
\* settles when its first attempt has come through, accepted or not, and
\* startVerificationProcess() follows, which returns at once when the
\* launcherStatus of its closure is processing and issues POST
\* /api/verify-files otherwise
DownloadResumes(c, resp) ==
  IF download.st = "refreshing" /\ download.chain = c
       /\ chains[c].attempts = 1
  THEN download' =
         [download EXCEPT
            !.echoed = (/\ ConfigAccepted(resp)
                        /\ resp.body.game_directory = download.path),
            !.st = IF download.processing THEN "skipped" ELSE "verifying"]
  ELSE UNCHANGED download

\* the GET /api/config of chain c settles and fetchBackendData resumes
ConfigResponse(c, resp) ==
  /\ chains[c].st = "fetching"
  /\ IF ConfigAccepted(resp)
     THEN ConfigSuccess(c, resp.body)
     ELSE ConfigFailure(c) /\ UNCHANGED launcherConfig
  /\ sawInvalidConfig' =
       (sawInvalidConfig \/ (resp.kind = "json" /\ resp.body \in InvalidConfigs))
  /\ DownloadResumes(c, resp)
  /\ UNCHANGED <<phase, serverStatus, timers, statusLog, serverLog,
                 statusFailRun, serverFailRun>>
  /\ UNCHANGED <<updateVars, dialogVars, javaErrorDismissed, selectWrite,
                 pollHistory, addAccount>>

\* the setTimeout of chain c fires: fetchBackendData(retries - 1, delay * 2)
RetryTimer(c) ==
  /\ chains[c].st = "waiting"
  /\ chains' = [chains EXCEPT ![c] = Fetching(@, @.retries, @.delay)]
  /\ UNCHANGED <<phase, accounts, selectedAccount, launcherStatus,
                 serverStatus, launcherConfig, isJavaErrorOpen,
                 javaErrorMessage, toasts, javaPending, timers, statusLog,
                 serverLog, statusFailRun, serverFailRun, sinceTerminal,
                 sawInvalidConfig>>
  /\ UNCHANGED <<updateVars, dialogVars, handlerVars>>

\* fetchBackendData() with the default arguments, on the first free chain
StartChain ==
  /\ \E c \in ChainIds : chains[c].st = "idle"
  /\ LET c == CHOOSE k \in ChainIds :
                /\ chains[k].st = "idle"
                /\ \A j \in 1..(k - 1) : chains[j].st # "idle"
     IN  chains' = [chains EXCEPT ![c] =
                      Fetching(@, DefaultRetries, DefaultDelay)]

\* handleDataChange: a dialog reports a change and the page fetches again
HandleDataChange ==
  /\ phase = "mounted"
  /\ StartChain
  /\ UNCHANGED <<phase, accounts, selectedAccount, launcherStatus,
                 serverStatus, launcherConfig, isJavaErrorOpen,
                 javaErrorMessage, toasts, javaPending, timers, statusLog,
                 serverLog, statusFailRun, serverFailRun, sinceTerminal,
                 sawInvalidConfig>>
  /\ UNCHANGED <<updateVars, dialogVars, handlerVars>>

\* a GET /api/check-java settles and checkJavaVersion resumes
CheckJavaResponse(resp) ==
  /\ javaPending > 0
  /\ javaPending' = javaPending - 1
  /\ IF resp.kind = "non2xx"
     THEN /\ javaErrorMessage' = resp.error
          /\ isJavaErrorOpen' = TRUE
     ELSE UNCHANGED <<javaErrorMessage, isJavaErrorOpen>>
  /\ UNCHANGED <<phase, accounts, selectedAccount, launcherStatus,
                 serverStatus, launcherConfig, toasts, chains, timers,
                 statusLog, serverLog, statusFailRun, serverFailRun,
                 sinceTerminal, sawInvalidConfig>>
  /\ UNCHANGED <<updateVars, dialogVars, handlerVars>>

\* handleSelectAccount(account) from the account menu, which lists accounts
HandleSelectAccount(i) ==
  /\ phase = "mounted"
  /\ i \in 1..Len(accounts)
  /\ selectedAccount' = accounts[i]
  /\ selectWrite' =
       IF selectWrite.st = "pending" THEN selectWrite
       ELSE [st |-> "pending", uuid |-> accounts[i].uuid]
  /\ UNCHANGED <<javaErrorDismissed, download, pollHistory, addAccount>>
  /\ UNCHANGED <<phase, accounts, launcherStatus, serverStatus,
                 launcherConfig, isJavaErrorOpen, javaErrorMessage, toasts,
                 chains, javaPending, timers, statusLog, serverLog,
                 statusFailRun, serverFailRun, sinceTerminal,
                 sawInvalidConfig>>
  /\ UNCHANGED <<updateVars, dialogVars>>

\* isGameDirSet: !!launcherConfig?.game_settings?.game_directory
IsGameDirSet == launcherConfig.game_directory # <<>>

\* the folder button while no game directory is set (the button is disabled
\* without a selected account): handleDownloadClick up to its POST. With no
\* folder picked the toast "Отменено" ends the call; otherwise finalPath is
\* derived and POST /api/config is issued
HandleDownloadClick(pick) ==
  /\ phase = "mounted"
  /\ selectedAccount # NoAccount
  /\ ~IsGameDirSet
  /\ download.st = "idle"
  /\ IF pick.picked
     THEN /\ download' =
               [IdleDownload EXCEPT
                  !.st = "writing",
                  !.path = DownloadFinalPath(pick.path),
                  !.processing = launcherStatus.is_processing]
          /\ UNCHANGED toasts
     ELSE /\ download' = [IdleDownload EXCEPT !.st = "cancelled"]
          /\ toasts' = Append(toasts, ToastCancelled)
  /\ UNCHANGED <<javaErrorDismissed, selectWrite, pollHistory, addAccount>>
  /\ UNCHANGED <<phase, accounts, selectedAccount, launcherStatus,
                 serverStatus, launcherConfig, isJavaErrorOpen,
                 javaErrorMessage, chains, javaPending, timers, statusLog,
                 serverLog, statusFailRun, serverFailRun, sinceTerminal,
                 sawInvalidConfig>>
  /\ UNCHANGED <<updateVars, dialogVars>>

\* the POST of handleDownloadClick settles: a 2xx goes straight on to
\* fetchBackendData(), anything else to the toast of the catch block (the
\* model follows the call while a chain record is free)
DownloadWriteResponse(resp) ==
  /\ download.st = "writing"
  /\ IF resp = "ok"
     THEN /\ StartChain
          /\ download' =
               [download EXCEPT
                  !.st = "refreshing",
                  !.chain = CHOOSE k \in ChainIds :
                              /\ chains[k].st = "idle"
                              /\ \A j \in 1..(k - 1) : chains[j].st # "idle"]
          /\ UNCHANGED toasts
     ELSE /\ download' = [download EXCEPT !.st = "failed"]
          /\ toasts' = Append(toasts, ToastPathNotSaved(resp))
          /\ UNCHANGED chains
  /\ UNCHANGED <<javaErrorDismissed, selectWrite, pollHistory, addAccount>>
  /\ UNCHANGED <<phase, accounts, selectedAccount, launcherStatus,
                 serverStatus, launcherConfig, isJavaErrorOpen,
                 javaErrorMessage, javaPending, timers, statusLog,
                 serverLog, statusFailRun, serverFailRun, sinceTerminal,
                 sawInvalidConfig>>
  /\ UNCHANGED <<updateVars, dialogVars>>

\* the POST /api/verify-files of startVerificationProcess settles
VerifyResponse(resp) ==
  /\ download.st = "verifying"
  /\ download' =
       [download EXCEPT !.st = IF resp = "ok" THEN "started" ELSE "notStarted"]
  /\ toasts' = Append(toasts, IF resp = "ok" THEN ToastDownloadStarted
                              ELSE ToastDownloadError(resp))
  /\ UNCHANGED <<javaErrorDismissed, selectWrite, pollHistory, addAccount>>
  /\ UNCHANGED <<phase, accounts, selectedAccount, launcherStatus,
                 serverStatus, launcherConfig, isJavaErrorOpen,
                 javaErrorMessage, chains, javaPending, timers, statusLog,
                 serverLog, statusFailRun, serverFailRun, sinceTerminal,
                 sawInvalidConfig>>
  /\ UNCHANGED <<updateVars, dialogVars>>

\* the POST of handleSelectAccount settles: the response is not looked at,
\* and the catch block of a rejected fetch writes to the console only
SelectWriteResponse(resp) ==
  /\ selectWrite.st = "pending"
  /\ selectWrite' = [selectWrite EXCEPT !.st = resp]
  /\ UNCHANGED <<javaErrorDismissed, download, pollHistory, addAccount>>
  /\ UNCHANGED <<phase, accounts, selectedAccount, launcherStatus,
                 serverStatus, launcherConfig, isJavaErrorOpen,
                 javaErrorMessage, toasts, chains, javaPending, timers,
                 statusLog, serverLog, statusFailRun, serverFailRun,
                 sinceTerminal, sawInvalidConfig>>
  /\ UNCHANGED <<updateVars, dialogVars>>

\* ------------------------------------------------------------ status poller

\* a poll as the log holds it: its outcome, and whether a timer tick of which
\* period issued it
Poll(byTimer, period) ==
  [outcome |-> "pending", byTimer |-> byTimer, period |-> period]

\* pollStatus() up to its await: the GET /api/status is issued
PollStatusCall(byTimer, period) ==
  statusLog' = Append(statusLog, Poll(byTimer, period))

\* pollServerStatus() up to its await: the GET /api/server-status is issued
PollServerStatusCall(byTimer, period) ==
  serverLog' = Append(serverLog, Poll(byTimer, period))

\* mutant of PollingEffect: the intervals without the two immediate calls
PollingEffect_IntervalsOnly ==
  /\ UNCHANGED <<statusLog, serverLog>>
  /\ timers' =
       [timers EXCEPT
          !["status"] = [active |-> TRUE, period |-> StatusIntervalMs,
                         cb |-> "pollStatus", fired |-> 0],
          !["server"] = [active |-> TRUE, period |-> ServerIntervalMs,
                         cb |-> "pollServerStatus", fired |-> 0]]

\* the polling effect: both polls at once, then the two intervals
PollingEffect ==
  /\ PollStatusCall(FALSE, 0)
  /\ PollServerStatusCall(FALSE, 0)
  /\ timers' =
       [timers EXCEPT
          !["status"] = [active |-> TRUE, period |-> StatusIntervalMs,
                         cb |-> "pollStatus", fired |-> 0],
          !["server"] = [active |-> TRUE, period |-> ServerIntervalMs,
                         cb |-> "pollServerStatus", fired |-> 0]]

\* the update listener effect: window.electronAPI is the bridge the preload
\* script of the Electron shell defines, and both callbacks are registered
UpdateListenerEffect ==
  /\ listeners' = {"onUpdateMessage", "onUpdateDownloaded"}
  /\ UNCHANGED <<updateMessage, isUpdateReady, restartRequested>>

\* the first render commits and the effects run: the update listener effect,
\* fetchBackendData(), then the polling effect
Mount ==
  /\ phase = "created"
  /\ phase' = "mounted"
  /\ UpdateListenerEffect
  /\ StartChain
  /\ PollingEffect
  /\ UNCHANGED <<accounts, selectedAccount, launcherStatus, serverStatus,
                 launcherConfig, isJavaErrorOpen, javaErrorMessage, toasts,
                 javaPending, statusFailRun, serverFailRun, sinceTerminal,
                 sawInvalidConfig>>
  /\ UNCHANGED <<dialogVars, handlerVars>>

\* an interval timer fires and calls its callback
Tick(t) ==
  /\ timers[t].active
  /\ timers' = [timers EXCEPT ![t].fired = @ + 1]
  /\ IF timers[t].cb = "pollStatus"
     THEN /\ Len(statusLog) < MaxStatusPolls
          /\ PollStatusCall(TRUE, timers[t].period)
          /\ UNCHANGED serverLog
     ELSE /\ Len(serverLog) < MaxServerPolls
          /\ PollServerStatusCall(TRUE, timers[t].period)
          /\ UNCHANGED statusLog
  /\ UNCHANGED <<phase, accounts, selectedAccount, launcherStatus,
                 serverStatus, launcherConfig, isJavaErrorOpen,
                 javaErrorMessage, toasts, chains, javaPending, statusFailRun,
                 serverFailRun, sinceTerminal, sawInvalidConfig>>
  /\ UNCHANGED <<updateVars, dialogVars, handlerVars>>

\* the body of a response is used: 2xx and parsable
Answered(resp) == resp.kind = "json"

\* mutant of StatusAfterFailure: a failed poll takes the state back to the
\* initial one
StatusAfterFailure_Initial(prev) == InitialLauncherStatus

\* mutant of StatusAfterFailure: a failed poll reports the error in the status
StatusAfterFailure_ApiError(prev) == [prev EXCEPT !.status_text = TextApiError]

\* the catch block of pollStatus: the error is logged, the state is kept
StatusAfterFailure(prev) == prev

\* the GET /api/status of poll i settles and pollStatus resumes
StatusResponse(i, resp) ==
  /\ i \in 1..Len(statusLog)
  /\ statusLog[i].outcome = "pending"
  /\ IF Answered(resp)
     THEN /\ statusLog' = [statusLog EXCEPT ![i].outcome = "ok"]
          /\ SetLauncherStatus(resp.body)
          /\ lastStatusPayload' = resp.body
          /\ sameTextPolls' =
               IF resp.body.status_text = launcherStatus.status_text
               THEN sameTextPolls + 1 ELSE sameTextPolls
          /\ statusFailRun' = 0
          /\ sinceTerminal' = FALSE
     ELSE /\ statusLog' = [statusLog EXCEPT ![i].outcome = "fail"]
          /\ SetLauncherStatus(StatusAfterFailure(launcherStatus))
          /\ statusFailRun' = statusFailRun + 1
          /\ UNCHANGED <<sinceTerminal, pollHistory>>
  /\ UNCHANGED <<phase, accounts, selectedAccount, serverStatus,
                 launcherConfig, chains, javaPending, timers, serverLog,
                 serverFailRun, sawInvalidConfig>>
  /\ UNCHANGED <<updateVars, dialogVars, javaErrorDismissed, selectWrite,
                 download, addAccount>>

\* mutant of ServerAfterFailure: a failed poll keeps the previous state
ServerAfterFailure_Retain(prev) == prev

\* the catch block of pollServerStatus: setServerStatus({ online: false })
ServerAfterFailure(prev) == ServerOffline

\* the GET /api/server-status of poll i settles and pollServerStatus resumes
ServerResponse(i, resp) ==
  /\ i \in 1..Len(serverLog)
  /\ serverLog[i].outcome = "pending"
  /\ IF Answered(resp)
     THEN /\ serverLog' = [serverLog EXCEPT ![i].outcome = "ok"]
          /\ serverStatus' = resp.body
          /\ serverFailRun' = 0
     ELSE /\ serverLog' = [serverLog EXCEPT ![i].outcome = "fail"]
          /\ serverStatus' = ServerAfterFailure(serverStatus)
          /\ serverFailRun' = serverFailRun + 1
  /\ UNCHANGED <<phase, accounts, selectedAccount, launcherStatus,
                 launcherConfig, isJavaErrorOpen, javaErrorMessage, toasts,
                 chains, javaPending, timers, statusLog, statusFailRun,
                 sinceTerminal, sawInvalidConfig>>
  /\ UNCHANGED <<updateVars, dialogVars, handlerVars>>

\* the user closes the Java modal: setJavaErrorOpen(false)
CloseJavaError ==
  /\ phase = "mounted"
  /\ isJavaErrorOpen
  /\ isJavaErrorOpen' = FALSE
  /\ javaErrorDismissed' = TRUE
  /\ UNCHANGED <<selectWrite, download, pollHistory, addAccount>>
  /\ UNCHANGED <<phase, accounts, selectedAccount, launcherStatus,
                 serverStatus, launcherConfig, javaErrorMessage, toasts,
                 chains, javaPending, timers, statusLog, serverLog,
                 statusFailRun, serverFailRun, sinceTerminal,
                 sawInvalidConfig>>
  /\ UNCHANGED <<updateVars, dialogVars>>

\* ------------------------------------------------------------ update footer

\* the progress messages the main process pushes
UpdateMessages == {TextUpdateAvailable, TextUpdateProgress}

\* mutant of OnUpdateMessage: a progress message takes the footer back to
\* the message
OnUpdateMessage_ClearsReady(message) ==
  /\ "onUpdateMessage" \in listeners
  /\ updateMessage' = message
  /\ isUpdateReady' = FALSE
  /\ UNCHANGED <<restartRequested, listeners>>
  /\ UNCHANGED <<phase, accounts, selectedAccount, launcherStatus,
                 serverStatus, launcherConfig, isJavaErrorOpen,
                 javaErrorMessage, toasts, chains, javaPending, timers,
                 statusLog, serverLog, statusFailRun, serverFailRun,
                 sinceTerminal, sawInvalidConfig>>
  /\ UNCHANGED <<dialogVars, handlerVars>>

\* the callback given to onUpdateMessage runs: setUpdateMessage(message)
OnUpdateMessage(message) ==
  /\ "onUpdateMessage" \in listeners
  /\ updateMessage' = message
  /\ UNCHANGED <<isUpdateReady, restartRequested, listeners>>
  /\ UNCHANGED <<phase, accounts, selectedAccount, launcherStatus,
                 serverStatus, launcherConfig, isJavaErrorOpen,
                 javaErrorMessage, toasts, chains, javaPending, timers,
                 statusLog, serverLog, statusFailRun, serverFailRun,
                 sinceTerminal, sawInvalidConfig>>
  /\ UNCHANGED <<dialogVars, handlerVars>>

\* the callback given to onUpdateDownloaded runs
OnUpdateDownloaded ==
  /\ "onUpdateDownloaded" \in listeners
  /\ isUpdateReady' = TRUE
  /\ updateMessage' = TextUpdateReady
  /\ UNCHANGED <<restartRequested, listeners>>
  /\ UNCHANGED <<phase, accounts, selectedAccount, launcherStatus,
                 serverStatus, launcherConfig, isJavaErrorOpen,
                 javaErrorMessage, toasts, chains, javaPending, timers,
                 statusLog, serverLog, statusFailRun, serverFailRun,
                 sinceTerminal, sawInvalidConfig>>
  /\ UNCHANGED <<dialogVars, handlerVars>>

\* what the left end of the footer renders: the restart button when
\* isUpdateReady, the update message otherwise
UpdateFooter ==
  IF isUpdateReady THEN [button |-> TRUE, text |-> <<>>]
  ELSE [button |-> FALSE, text |-> updateMessage]

\* mutant of RestartApp: the restart button is always rendered
RestartApp_Always ==
  /\ phase = "mounted"
  /\ restartRequested' = TRUE
  /\ UNCHANGED <<updateMessage, isUpdateReady, listeners>>
  /\ UNCHANGED <<phase, accounts, selectedAccount, launcherStatus,
                 serverStatus, launcherConfig, isJavaErrorOpen,
                 javaErrorMessage, toasts, chains, javaPending, timers,
                 statusLog, serverLog, statusFailRun, serverFailRun,
                 sinceTerminal, sawInvalidConfig>>
  /\ UNCHANGED <<dialogVars, handlerVars>>

\* the user clicks the restart button, which is rendered when isUpdateReady:
\* window.electronAPI.restartApp()
RestartApp ==
  /\ phase = "mounted"
  /\ UpdateFooter.button
  /\ restartRequested' = TRUE
  /\ UNCHANGED <<updateMessage, isUpdateReady, listeners>>
  /\ UNCHANGED <<phase, accounts, selectedAccount, launcherStatus,
                 serverStatus, launcherConfig, isJavaErrorOpen,
                 javaErrorMessage, toasts, chains, javaPending, timers,
                 statusLog, serverLog, statusFailRun, serverFailRun,
                 sinceTerminal, sawInvalidConfig>>
  /\ UNCHANGED <<dialogVars, handlerVars>>

\* ----------------------------------------------------------------- teardown

\* Home is unmounted and the cleanups of its effects run: removeAllListeners()
\* for the update listener effect, clearInterval for both intervals. The
\* mount effect that calls fetchBackendData() returns no cleanup and the
\* handle of the retry setTimeout is not kept, so the chains are left alone.
Unmount ==
  /\ phase = "mounted"
  /\ phase' = "unmounted"
  /\ listeners' = {}
  /\ timers' = [t \in DOMAIN timers |-> [timers[t] EXCEPT !.active = FALSE]]
  /\ UNCHANGED <<updateMessage, isUpdateReady, restartRequested>>
  /\ UNCHANGED <<accounts, selectedAccount, launcherStatus, serverStatus,
                 launcherConfig, isJavaErrorOpen, javaErrorMessage, toasts,
                 chains, javaPending, statusLog, serverLog, statusFailRun,
                 serverFailRun, sinceTerminal, sawInvalidConfig>>
  /\ UNCHANGED <<dialogVars, handlerVars>>

\* ---------------------------------------------------------- settings dialog

\* the settings button of Home opens the dialog and its effect on open runs:
\* fetchData() and fetchSystemInfo() are issued (getLauncherVersion() feeds
\* launcherVersion, which is not part of this state)
OpenSettings ==
  /\ phase = "mounted"
  /\ ~settingsOpen
  /\ settingsOpen' = TRUE
  /\ dataPending' = dataPending + 1
  /\ systemInfoPending' = systemInfoPending + 1
  /\ UNCHANGED maxSystemRam
  /\ UNCHANGED <<settingsAccounts, mods, javaSettings, initialGameSettings,
                 gameSettings, saves, toggles>>
  /\ UNCHANGED <<homeRest, toasts, chains>>

\* the Promise.all of fetchData settles and fetchData resumes
FetchDataResponse(resp) ==
  /\ dataPending > 0
  /\ dataPending' = dataPending - 1
  /\ IF resp.kind = "json"
     THEN /\ settingsAccounts' = resp.body.accounts
          /\ mods' = resp.body.mods
          /\ javaSettings' =
               IF resp.body.config.java_settings.present
               THEN resp.body.config.java_settings.value
               ELSE javaSettings
          /\ gameSettings' =
               IF resp.body.config.game_settings.present
               THEN resp.body.config.game_settings.value
               ELSE gameSettings
          /\ initialGameSettings' =
               IF resp.body.config.game_settings.present
               THEN resp.body.config.game_settings.value
               ELSE initialGameSettings
          /\ UNCHANGED toasts
     ELSE /\ toasts' = Append(toasts, ToastLoadFailed)
          /\ UNCHANGED <<settingsAccounts, mods, javaSettings,
                         initialGameSettings, gameSettings>>
  /\ UNCHANGED <<settingsOpen, saves, toggles, ramVars>>
  /\ UNCHANGED <<homeRest, chains>>

\* the logs switch: setGameSettings({...gameSettings, enable_logs: checked})
HandleEnableLogs(checked) ==
  /\ settingsOpen
  /\ checked # gameSettings.enable_logs
  /\ gameSettings' = [gameSettings EXCEPT !.enable_logs = checked]
  /\ UNCHANGED ramVars
  /\ UNCHANGED <<settingsOpen, dataPending, settingsAccounts, mods,
                 javaSettings, initialGameSettings, saves, toggles>>
  /\ UNCHANGED <<homeRest, toasts, chains>>

\* handleSaveSettings(key, data) up to its first await: the POST /api/config
\* is issued, on the first free call record
Writing(key, data, held, caller) ==
  [IdleSave EXCEPT !.st = "writing", !.key = key, !.data = data,
                   !.initialLogs = initialGameSettings.enable_logs,
                   !.heldBefore = held, !.caller = caller]

StartSave(key, data, held, caller) ==
  /\ \E s \in DOMAIN saves : saves[s].st = "idle"
  /\ LET s == CHOOSE k \in DOMAIN saves :
                /\ saves[k].st = "idle"
                /\ \A j \in 1..(k - 1) : saves[j].st # "idle"
     IN  saves' = [saves EXCEPT ![s] = Writing(key, data, held, caller)]

\* handleSelectGameDirectory with a folder picked: the final path is put
\* into gameSettings, then handleSaveSettings is called
HandleSelectGameDirectory(path) ==
  /\ settingsOpen
  /\ gameSettings' = [gameSettings EXCEPT !.game_directory = FinalPath(path)]
  /\ StartSave("game_settings",
               [gameSettings EXCEPT !.game_directory = FinalPath(path)],
               gameSettings.game_directory, "handleSelectGameDirectory")
  /\ UNCHANGED ramVars
  /\ UNCHANGED <<settingsOpen, dataPending, settingsAccounts, mods,
                 javaSettings, initialGameSettings, toggles>>
  /\ UNCHANGED <<homeRest, toasts, chains>>

\* the save button of the debug tab
SaveLogsClick ==
  /\ settingsOpen
  /\ StartSave("game_settings", gameSettings, gameSettings.game_directory,
               "button")
  /\ UNCHANGED ramVars
  /\ UNCHANGED <<settingsOpen, dataPending, settingsAccounts, mods,
                 javaSettings, initialGameSettings, gameSettings, toggles>>
  /\ UNCHANGED <<homeRest, toasts, chains>>

\* the save button of the Java tab
SaveJavaClick ==
  /\ settingsOpen
  /\ StartSave("java_settings", javaSettings, javaSettings.path, "button")
  /\ UNCHANGED ramVars
  /\ UNCHANGED <<settingsOpen, dataPending, settingsAccounts, mods,
                 javaSettings, initialGameSettings, gameSettings, toggles>>
  /\ UNCHANGED <<homeRest, toasts, chains>>

\* the fetch of /api/system-info settles and fetchSystemInfo resumes: res.ok
\* sets 80% of the total, another status sets nothing, the catch block sets
\* the default
SystemInfoResponse(resp) ==
  /\ systemInfoPending > 0
  /\ systemInfoPending' = systemInfoPending - 1
  /\ maxSystemRam' =
       IF resp.kind = "json" THEN AvailableRam(resp.total_ram_mb)
       ELSE IF resp.kind = "reject" THEN DefaultMaxSystemRam
       ELSE maxSystemRam
  /\ UNCHANGED <<settingsOpen, dataPending, settingsAccounts, mods,
                 javaSettings, initialGameSettings, gameSettings, saves,
                 toggles>>
  /\ UNCHANGED <<homeRest, toasts, chains>>

\* the RAM slider is moved: onValueChange hands over the two thumb values,
\* in ascending order, between min={512} and max={maxSystemRam}
HandleRamSlider(lo, hi) ==
  /\ settingsOpen
  /\ lo \in SliderStops(maxSystemRam)
  /\ hi \in SliderStops(maxSystemRam)
  /\ lo <= hi
  /\ <<lo, hi>> # <<javaSettings.min_mem, javaSettings.max_mem>>
  /\ javaSettings' = [javaSettings EXCEPT !.min_mem = lo, !.max_mem = hi]
  /\ UNCHANGED ramVars
  /\ UNCHANGED <<settingsOpen, dataPending, settingsAccounts, mods,
                 initialGameSettings, gameSettings, saves, toggles>>
  /\ UNCHANGED <<homeRest, toasts, chains>>

\* handleSelectJavaPath with a file picked: the path is put into
\* javaSettings and handleSaveSettings is called without being awaited
HandleSelectJavaPath(path) ==
  /\ settingsOpen
  /\ javaSettings' = [javaSettings EXCEPT !.path = path]
  /\ StartSave("java_settings", [javaSettings EXCEPT !.path = path],
               javaSettings.path, "handleSelectJavaPath")
  /\ UNCHANGED ramVars
  /\ UNCHANGED <<settingsOpen, dataPending, settingsAccounts, mods,
                 initialGameSettings, gameSettings, toggles>>
  /\ UNCHANGED <<homeRest, toasts, chains>>

\* handleChooseJava(path), the button of an entry of the Java list: the
\* same, then the toast "Java выбрана"
HandleChooseJava(path) ==
  /\ settingsOpen
  /\ javaSettings' = [javaSettings EXCEPT !.path = path]
  /\ StartSave("java_settings", [javaSettings EXCEPT !.path = path],
               javaSettings.path, "handleChooseJava")
  /\ toasts' = Append(toasts, ToastJavaSelected(path))
  /\ UNCHANGED ramVars
  /\ UNCHANGED <<settingsOpen, dataPending, settingsAccounts, mods,
                 initialGameSettings, gameSettings, toggles>>
  /\ UNCHANGED <<homeRest, chains>>

\* onSettingsChange() is handleDataChange of Home: fetchBackendData() starts
\* a chain (the model keeps MaxChains of them and does not track more)
OnSettingsChange ==
  IF \E c \in ChainIds : chains[c].st = "idle"
  THEN StartChain
  ELSE UNCHANGED chains

\* mutant of WriteAccepted: res.ok is not looked at
WriteAccepted_AnyResponse(resp) == resp # "reject"

\* if (!res.ok) throw, and a rejected fetch throws by itself
WriteAccepted(resp) == resp = "ok"

\* settingsKey === 'game_settings' && settingsData.game_directory
NeedsConfirmation(key, data) ==
  /\ key = "game_settings"
  /\ data.game_directory # <<>>

\* mutant of Echoed: no re-read is ever taken as a confirmation
Echoed_Never(resp, data) == FALSE

\* configRes.ok and config?.game_settings?.game_directory ===
\* settingsData.game_directory
Echoed(resp, data) ==
  /\ resp.kind = "json"
  /\ resp.game_settings.present
  /\ resp.game_settings.value.game_directory = data.game_directory

\* mutant of MoreReads: one iteration less
MoreReads_Four(i) == i < ConfirmReads - 1

\* the loop condition i < 5
MoreReads(i) == i < ConfirmReads

\* mutant of AdvisoryDue: the advisory is never raised
AdvisoryDue_Never(key, data, initialLogs) == FALSE

\* settingsKey === 'game_settings' && settingsData.enable_logs !==
\* initialGameSettings.enable_logs
AdvisoryDue(key, data, initialLogs) ==
  /\ key = "game_settings"
  /\ data.enable_logs # initialLogs

\* the toasts raised after the try block has come through
SuccessToasts(save) ==
  IF AdvisoryDue(save.key, save.data, save.initialLogs)
  THEN <<ToastSaved, ToastRestartRequired>>
  ELSE <<ToastSaved>>

\* the end of the try block: the success toast, the advisory,
\* onSettingsChange(); calls are the call records with what the response
\* just received has added, write is how the POST of the call settled
Succeed(calls, s, write) ==
  /\ saves' = [calls EXCEPT ![s].st = "ok", ![s].write = write,
                            ![s].notices = @ \o SuccessToasts(saves[s]),
                            ![s].changes = @ + 1]
  /\ toasts' = toasts \o SuccessToasts(saves[s])
  /\ OnSettingsChange

\* mutant of Fail: onSettingsChange() placed after the try/catch
Fail_Refreshes(calls, s, write) ==
  /\ saves' = [calls EXCEPT ![s].st = "failed", ![s].write = write,
                            ![s].notices = Append(@, ToastSaveFailed),
                            ![s].changes = @ + 1]
  /\ toasts' = Append(toasts, ToastSaveFailed)
  /\ OnSettingsChange

\* the catch block: the failure toast
Fail(calls, s, write) ==
  /\ saves' = [calls EXCEPT ![s].st = "failed", ![s].write = write,
                            ![s].notices = Append(@, ToastSaveFailed)]
  /\ toasts' = Append(toasts, ToastSaveFailed)
  /\ UNCHANGED chains

\* the first GET /api/config of the confirmation loop is issued
FirstRead(s) ==
  /\ saves' = [saves EXCEPT ![s].st = "reading", ![s].i = 0,
                            ![s].write = "ok", ![s].reads = @ + 1]
  /\ UNCHANGED <<toasts, chains>>

\* the POST /api/config of call s settles and handleSaveSettings resumes
WriteResponse(s, resp) ==
  /\ saves[s].st = "writing"
  /\ IF ~WriteAccepted(resp) THEN Fail(saves, s, resp)
     ELSE IF NeedsConfirmation(saves[s].key, saves[s].data) THEN FirstRead(s)
     ELSE Succeed(saves, s, resp)
  /\ UNCHANGED ramVars
  /\ UNCHANGED <<settingsOpen, dataPending, settingsAccounts, mods,
                 javaSettings, initialGameSettings, gameSettings, toggles>>
  /\ UNCHANGED homeRest

\* a GET /api/config of the confirmation loop settles: a rejected fetch
\* throws, a matching body breaks out of the loop, anything else goes on to
\* the 200 ms wait
ReadResponse(s, resp) ==
  /\ saves[s].st = "reading"
  /\ LET seen == [saves EXCEPT ![s].matched =
                    (/\ resp.kind = "json"
                     /\ resp.game_settings.present
                     /\ resp.game_settings.value.game_directory
                          = saves[s].data.game_directory),
                                ![s].rejected = (resp.kind = "reject")]
     IN  IF resp.kind = "reject" THEN Fail(seen, s, "ok")
         ELSE IF Echoed(resp, saves[s].data) THEN Succeed(seen, s, "ok")
         ELSE /\ saves' = [seen EXCEPT ![s].st = "waiting",
                                       ![s].waits = Append(@, ConfirmDelayMs)]
              /\ UNCHANGED <<toasts, chains>>
  /\ UNCHANGED ramVars
  /\ UNCHANGED <<settingsOpen, dataPending, settingsAccounts, mods,
                 javaSettings, initialGameSettings, gameSettings, toggles>>
  /\ UNCHANGED homeRest

\* the 200 ms wait is over: i++, then the next GET or, with the loop
\* exhausted and updated still false, the throw
ConfirmWait(s) ==
  /\ saves[s].st = "waiting"
  /\ IF MoreReads(saves[s].i + 1)
     THEN /\ saves' = [saves EXCEPT ![s].st = "reading", ![s].i = @ + 1,
                                    ![s].reads = @ + 1]
          /\ UNCHANGED <<toasts, chains>>
     ELSE /\ saves' = [saves EXCEPT ![s].st = "failed", ![s].i = @ + 1,
                                    ![s].notices = Append(@, ToastSaveFailed)]
          /\ toasts' = Append(toasts, ToastSaveFailed)
          /\ UNCHANGED chains
  /\ UNCHANGED ramVars
  /\ UNCHANGED <<settingsOpen, dataPending, settingsAccounts, mods,
                 javaSettings, initialGameSettings, gameSettings, toggles>>
  /\ UNCHANGED homeRest

\* ------------------------------------------------------------- mod toggles

\* mutant of SetStatus: the new status is given to every mod
SetStatus_All(list, filename, enabled) ==
  [k \in 1..Len(list) |->
     [list[k] EXCEPT !.status = IF enabled THEN "enabled" ELSE "disabled"]]

\* mods.map(m => m.filename === filename ? { ...m, status: enabled ?
\* 'enabled' : 'disabled' } : m)
SetStatus(list, filename, enabled) ==
  [k \in 1..Len(list) |->
     IF list[k].filename = filename
     THEN [list[k] EXCEPT !.status = IF enabled THEN "enabled" ELSE "disabled"]
     ELSE list[k]]

\* handleToggleMod(filename, enabled) from the switch of mod k, which passes
\* the opposite of what it shows: originalMods is taken, the list is
\* patched, the POST /api/mods/state is issued, on the first free call record
HandleToggleMod(k) ==
  /\ settingsOpen
  /\ k \in 1..Len(mods)
  /\ \E t \in ToggleIds : toggles[t].st = "idle"
  /\ LET t == CHOOSE n \in ToggleIds :
                /\ toggles[n].st = "idle"
                /\ \A j \in 1..(n - 1) : toggles[j].st # "idle"
         filename == mods[k].filename
         enabled == mods[k].status # "enabled"
     IN  /\ toggles' = [toggles EXCEPT ![t] =
                          [st |-> "posting", filename |-> filename,
                           enabled |-> enabled, originalMods |-> mods]]
         /\ mods' = SetStatus(mods, filename, enabled)
  /\ UNCHANGED ramVars
  /\ UNCHANGED <<settingsOpen, dataPending, settingsAccounts, javaSettings,
                 initialGameSettings, gameSettings, saves>>
  /\ UNCHANGED <<homeRest, toasts, chains>>

\* mutant of Restored: the catch block leaves the list as it is
Restored_Current(current, original) == current

\* setMods(originalMods) in the catch block
Restored(current, original) == original

\* mutant of ToggleResponse: a 2xx answer sets the status its own call asked
\* for
ToggleResponse_AppliesOwn(t, resp) ==
  /\ toggles[t].st = "posting"
  /\ IF resp = "ok"
     THEN /\ toggles' = [toggles EXCEPT ![t].st = "ok"]
          /\ mods' = SetStatus(mods, toggles[t].filename, toggles[t].enabled)
          /\ UNCHANGED toasts
     ELSE /\ toggles' = [toggles EXCEPT ![t].st = "failed"]
          /\ mods' = Restored(mods, toggles[t].originalMods)
          /\ toasts' = Append(toasts, ToastToggleFailed)
  /\ UNCHANGED ramVars
  /\ UNCHANGED <<settingsOpen, dataPending, settingsAccounts, javaSettings,
                 initialGameSettings, gameSettings, saves>>
  /\ UNCHANGED <<homeRest, chains>>

\* the POST /api/mods/state of call t settles and handleToggleMod resumes
ToggleResponse(t, resp) ==
  /\ toggles[t].st = "posting"
  /\ IF resp = "ok"
     THEN /\ toggles' = [toggles EXCEPT ![t].st = "ok"]
          /\ UNCHANGED <<mods, toasts>>
     ELSE /\ toggles' = [toggles EXCEPT ![t].st = "failed"]
          /\ mods' = Restored(mods, toggles[t].originalMods)
          /\ toasts' = Append(toasts, ToastToggleFailed)
  /\ UNCHANGED ramVars
  /\ UNCHANGED <<settingsOpen, dataPending, settingsAccounts, javaSettings,
                 initialGameSettings, gameSettings, saves>>
  /\ UNCHANGED <<homeRest, chains>>

\* ------------------------------------------------- add-account dialog

\* setAddAccountOpen(true), from the button or the menu item of Home
OpenAddAccount ==
  /\ phase = "mounted"
  /\ ~addAccount.open
  /\ addAccount' = [addAccount EXCEPT !.open = TRUE]
  /\ UNCHANGED <<homeCore, dialogVars, toasts, chains>>

\* onChange of the two inputs
SetEmail(value) ==
  /\ addAccount.open
  /\ value # addAccount.email
  /\ addAccount' = [addAccount EXCEPT !.email = value]
  /\ UNCHANGED <<homeCore, dialogVars, toasts, chains>>

SetPassword(value) ==
  /\ addAccount.open
  /\ value # addAccount.password
  /\ addAccount' = [addAccount EXCEPT !.password = value]
  /\ UNCHANGED <<homeCore, dialogVars, toasts, chains>>

\* the guard of handleAddAccount: if (isLoading || !email || !password)
\* return
MaySubmit(dialog) ==
  /\ ~dialog.isLoading
  /\ dialog.email # <<>>
  /\ dialog.password # <<>>

\* handleAddAccount from the form, up to its first await: past the guard,
\* setIsLoading(true) and the POST /api/auth/elyby is issued
HandleAddAccount ==
  /\ addAccount.open
  /\ MaySubmit(addAccount)
  /\ Len(addAccount.calls) < MaxAuthCalls
  /\ addAccount' = [addAccount EXCEPT !.isLoading = TRUE,
                                      !.calls = Append(@, "pending")]
  /\ UNCHANGED <<homeCore, dialogVars, toasts, chains>>

\* handleOpenChange(false): the inputs are cleared and setIsLoading(false)
Reset(dialog) ==
  [dialog EXCEPT !.email = <<>>, !.password = <<>>, !.isLoading = FALSE]

\* handleOpenChange(false), then onOpenChange(false): the dialog is closed
\* by the user
CloseAddAccount ==
  /\ addAccount.open
  /\ addAccount' = [Reset(addAccount) EXCEPT !.open = FALSE]
  /\ UNCHANGED <<homeCore, dialogVars, toasts, chains>>

\* onAccountAdded() is handleDataChange of Home
OnAccountAdded == OnSettingsChange

\* the POST of call k settles and handleAddAccount resumes: on 2xx the
\* success toast, onAccountAdded(), onOpenChange(false) and the inputs
\* cleared; otherwise the error toast; setIsLoading(false) in both cases
AuthResponse(k, resp) ==
  /\ k \in 1..Len(addAccount.calls)
  /\ addAccount.calls[k] = "pending"
  /\ IF resp.kind = "ok"
     THEN /\ toasts' = Append(toasts, ToastAccountAdded(resp.username))
          /\ OnAccountAdded
          /\ addAccount' = [addAccount EXCEPT !.calls[k] = "ok",
                                              !.open = FALSE,
                                              !.email = <<>>,
                                              !.password = <<>>,
                                              !.isLoading = FALSE]
     ELSE /\ toasts' = Append(toasts, ToastAccountError(resp))
          /\ addAccount' = [addAccount EXCEPT !.calls[k] = "failed",
                                              !.isLoading = FALSE]
          /\ UNCHANGED chains
  /\ UNCHANGED <<homeCore, dialogVars>>

\* ---------------------------------------------------------- specifications

\* the bootstrap retry fetcher: mount, the chains, the Java check, the
\* account menu
NextBoot ==
  \/ Mount
  \/ HandleDataChange
  \/ \E c \in ChainIds, resp \in ConfigResponses : ConfigResponse(c, resp)
  \/ \E c \in ChainIds : RetryTimer(c)
  \/ \E resp \in JavaResponses : CheckJavaResponse(resp)
  \/ \E i \in 1..2 : HandleSelectAccount(i)

\* the status poller: mount, the interval ticks, the responses
NextPoll ==
  \/ Mount
  \/ \E t \in {"status", "server"} : Tick(t)
  \/ \E i \in 1..MaxStatusPolls, resp \in StatusResponses :
       StatusResponse(i, resp)
  \/ \E i \in 1..MaxServerPolls, resp \in ServerResponses :
       ServerResponse(i, resp)

\* teardown: the timers, the listeners and the retry chain of the mount,
\* before and after Home is unmounted
NextTeardown ==
  \/ Mount
  \/ Unmount
  \/ \E t \in {"status", "server"} : Tick(t)
  \/ \E c \in ChainIds, resp \in ConfigResponses : ConfigResponse(c, resp)
  \/ \E c \in ChainIds : RetryTimer(c)
  \/ \E message \in UpdateMessages : OnUpdateMessage(message)
  \/ OnUpdateDownloaded

\* the settings synchronizer: the dialog is opened, settings are edited and
\* saved
NextSave ==
  \/ Mount
  \/ OpenSettings
  \/ \E resp \in SettingsResponses : FetchDataResponse(resp)
  \/ \E checked \in BOOLEAN : HandleEnableLogs(checked)
  \/ \E path \in PickedPaths : HandleSelectGameDirectory(path)
  \/ SaveLogsClick
  \/ SaveJavaClick
  \/ \E s \in SaveIds, resp \in PostResponses : WriteResponse(s, resp)
  \/ \E s \in SaveIds, resp \in ReadResponses : ReadResponse(s, resp)
  \/ \E s \in SaveIds : ConfirmWait(s)

\* the optimistic mod toggles: the dialog is opened, mods are switched
NextMods ==
  \/ Mount
  \/ OpenSettings
  \/ \E resp \in SettingsResponses : FetchDataResponse(resp)
  \/ \E k \in 1..2 : HandleToggleMod(k)
  \/ \E t \in ToggleIds, resp \in PostResponses : ToggleResponse(t, resp)

\* the error classifier: the launcher-status loop with the classifier texts
\* among its answers, and the button of the Java modal
NextClassify ==
  \/ Mount
  \/ \E t \in {"status"} : Tick(t)
  \/ \E i \in 1..MaxStatusPolls,
          resp \in StatusResponses \cup ClassifierResponses :
       StatusResponse(i, resp)
  \/ CloseJavaError

\* the update tracker: the two push notifications and the restart button,
\* beside the launcher-status loop and the other things the user can do
NextUpdate ==
  \/ Mount
  \/ \E message \in UpdateMessages : OnUpdateMessage(message)
  \/ OnUpdateDownloaded
  \/ RestartApp
  \/ \E t \in {"status"} : Tick(t)
  \/ \E i \in 1..MaxStatusPolls, resp \in StatusResponses :
       StatusResponse(i, resp)
  \/ CloseJavaError
  \/ OpenSettings

\* the launcher-status loop beside the fetchBackendData chain of the mount,
\* which writes the status text when it gives up
NextStatus ==
  \/ Mount
  \/ \E t \in {"status"} : Tick(t)
  \/ \E i \in 1..MaxStatusPolls, resp \in StatusResponses :
       StatusResponse(i, resp)
  \/ \E c \in ChainIds, resp \in ConfigResponses :
       ConfigResponse(c, resp)
  \/ \E c \in ChainIds : RetryTimer(c)

\* the account list of Home: the configuration is fetched, an account is
\* selected and the selection is written to the backend
NextSelect ==
  \/ Mount
  \/ \E c \in ChainIds, resp \in ConfigResponses : ConfigResponse(c, resp)
  \/ \E c \in ChainIds : RetryTimer(c)
  \/ \E i \in 1..2 : HandleSelectAccount(i)
  \/ \E resp \in PostResponses : SelectWriteResponse(resp)

\* the first installation: the configuration is fetched, the folder button
\* is pressed, the game directory is written and verification is started
NextDownload ==
  \/ Mount
  \/ \E c \in ChainIds, resp \in ConfigResponses : ConfigResponse(c, resp)
  \/ \E c \in ChainIds : RetryTimer(c)
  \/ \E pick \in DirectoryPicks : HandleDownloadClick(pick)
  \/ \E resp \in PostResponses : DownloadWriteResponse(resp)
  \/ \E resp \in PostResponses : VerifyResponse(resp)

\* the Java tab: memory limits against the RAM of the machine, the Java
\* executable picked in the file dialog or in the list, the save button
NextJava ==
  \/ Mount
  \/ OpenSettings
  \/ \E resp \in SettingsResponses : FetchDataResponse(resp)
  \/ \E resp \in SystemInfoResponses : SystemInfoResponse(resp)
  \/ \E lo, hi \in SliderStops(DefaultMaxSystemRam) : HandleRamSlider(lo, hi)
  \/ \E path \in JavaPaths : HandleSelectJavaPath(path)
  \/ \E path \in JavaPaths : HandleChooseJava(path)
  \/ SaveJavaClick
  \/ \E s \in SaveIds, resp \in PostResponses : WriteResponse(s, resp)

\* one answer for each way fetchBackendData can go on: the catch block (a
\* status other than 2xx) and the try block (the configuration with two
\* accounts)
SettleConfigResponses ==
  {resp \in ConfigResponses :
     \/ resp.kind = "non2xx"
     \/ resp.kind = "json" /\ resp.body.last_selected_uuid = "u2"}

\* one answer for each way the confirmation loop can go on: the throw of a
\* rejected fetch, the 200 ms wait, the break on the echoed path
SettleReadResponses ==
  {resp \in ReadResponses :
     \/ resp.kind \in {"reject", "non2xx"}
     \/ /\ resp.kind = "json"
        /\ resp.game_settings.present
        /\ resp.game_settings.value.game_directory = PathInstalled}

\* the two operations that wait and retry: the fetchBackendData chains and
\* the saves of the settings dialog, with and without the confirmation loop
NextSettle ==
  \/ Mount
  \/ \E c \in ChainIds, resp \in SettleConfigResponses :
       ConfigResponse(c, resp)
  \/ \E c \in ChainIds : RetryTimer(c)
  \/ OpenSettings
  \/ HandleSelectGameDirectory(PathGames)
  \/ SaveJavaClick
  \/ \E s \in SaveIds, resp \in PostResponses : WriteResponse(s, resp)
  \/ \E s \in SaveIds, resp \in SettleReadResponses : ReadResponse(s, resp)
  \/ \E s \in SaveIds : ConfirmWait(s)

\* the debug tab: the logs switch is flipped and saved, more than once while
\* the dialog stays open
NextLogs ==
  \/ Mount
  \/ OpenSettings
  \/ \E resp \in SettingsResponses : FetchDataResponse(resp)
  \/ \E checked \in BOOLEAN : HandleEnableLogs(checked)
  \/ SaveLogsClick
  \/ \E s \in LogSaveIds, resp \in PostResponses : WriteResponse(s, resp)
  \/ \E s \in LogSaveIds, resp \in SettleReadResponses :
       ReadResponse(s, resp)
  \/ \E s \in LogSaveIds : ConfirmWait(s)

\* the add-account dialog of Home: opened, filled, submitted, closed
NextAuth ==
  \/ Mount
  \/ OpenAddAccount
  \/ \E value \in {<<>>, EmailTyped} : SetEmail(value)
  \/ \E value \in {<<>>, PasswordTyped} : SetPassword(value)
  \/ HandleAddAccount
  \/ CloseAddAccount
  \/ \E k \in 1..MaxAuthCalls, resp \in AuthResponses : AuthResponse(k, resp)

Next ==
  \/ NextBoot \/ NextPoll \/ NextTeardown \/ NextSave \/ NextMods
  \/ NextClassify \/ NextUpdate \/ NextJava \/ NextSelect \/ NextDownload
  \/ NextSettle \/ NextStatus \/ NextLogs \/ NextAuth

Spec == Init /\ [][Next]_vars

SpecBoot == Init /\ [][NextBoot]_vars

SpecPoll == Init /\ [][NextPoll]_vars

SpecTeardown == Init /\ [][NextTeardown]_vars

SpecSave == Init /\ [][NextSave]_vars

SpecMods == Init /\ [][NextMods]_vars

SpecClassify == Init /\ [][NextClassify]_vars

SpecUpdate == Init /\ [][NextUpdate]_vars

SpecJava == Init /\ [][NextJava]_vars

SpecSelect == Init /\ [][NextSelect]_vars

SpecStatus == Init /\ [][NextStatus]_vars

SpecLogs == InitLogs /\ [][NextLogs]_vars

SpecAuth == Init /\ [][NextAuth]_vars

SpecDownload == Init /\ [][NextDownload]_vars

\* every HTTP request in flight settles in the end, one way or another, and
\* every timer that was set fires
SettleFairness ==
  /\ \A c \in ChainIds :
       /\ WF_vars(\E resp \in SettleConfigResponses : ConfigResponse(c, resp))
       /\ WF_vars(RetryTimer(c))
  /\ \A s \in SaveIds :
       /\ WF_vars(\E resp \in PostResponses : WriteResponse(s, resp))
       /\ WF_vars(\E resp \in SettleReadResponses : ReadResponse(s, resp))
       /\ WF_vars(ConfirmWait(s))

SpecSettle == Init /\ [][NextSettle]_vars /\ SettleFairness

\* ------------------------------------------------------------------ claims

RECURSIVE Pow2(_)
Pow2(n) == IF n = 0 THEN 1 ELSE 2 * Pow2(n - 1)

RECURSIVE Sum(_)
Sum(seq) == IF seq = <<>> THEN 0 ELSE Head(seq) + Sum(Tail(seq))

Started(c) == chains[c].st # "idle"

OnlyChain(c) == \A d \in ChainIds \ {c} : ~Started(d)

\* C1: in every chain, the delay scheduled before the n-th retry (n >= 1) is
\* 500 * 2^(n-1) ms, and every attempt after the first was preceded by one
\* such delay.
C1_RetryDelaysDouble ==
  \A c \in ChainIds :
    /\ \A n \in 1..Len(chains[c].delays) :
         chains[c].delays[n] = 500 * Pow2(n - 1)
    /\ Started(c) =>
         Len(chains[c].delays) =
           chains[c].attempts - (IF chains[c].st = "waiting" THEN 0 ELSE 1)

\* a chain has scheduled its fifth retry, after 8000 ms
C1_Witness ==
  \E c \in ChainIds :
    /\ chains[c].st = "waiting"
    /\ Len(chains[c].delays) = 5

\* C2 as claimed: a chain in which every attempt fails gives up after no
\* more than 5 GET /api/config attempts.
C2_AtMostFiveAttempts ==
  \A c \in ChainIds : chains[c].st = "failed" => chains[c].attempts <= 5

\* C2 as amended: no chain makes more than 6 attempts, and a chain in which
\* every attempt fails gives up after exactly 6 (the first call and its 5
\* retries).
C2_SixAttempts ==
  \A c \in ChainIds :
    /\ chains[c].attempts <= 6
    /\ chains[c].st = "failed" => chains[c].attempts = 6

\* a chain has given up
C2_Witness ==
  \E c \in ChainIds : chains[c].st = "failed" /\ chains[c].attempts = 6

\* C3: when a chain gives up, the delays it scheduled were 500, 1000, 2000,
\* 4000 and 8000 ms, 15500 ms in all.
C3_TotalWait ==
  \A c \in ChainIds :
    chains[c].st = "failed" =>
      /\ chains[c].delays = <<500, 1000, 2000, 4000, 8000>>
      /\ Sum(chains[c].delays) = 15500

\* a chain has given up after waiting 15500 ms
C3_Witness ==
  \E c \in ChainIds :
    chains[c].st = "failed" /\ Sum(chains[c].delays) = 15500

\* C4: the third attempt of a chain is issued after 500 then 1000 ms of
\* scheduled delay; while the mount chain is the only chain and has made no
\* more than three attempts the terminal failure state has not been set; and
\* when its third attempt has succeeded the state is populated: the
\* configuration is held, the accounts are its accounts, and an account is
\* selected exactly if there is one.
C4_ThirdAttemptSucceeds ==
  \A c \in ChainIds :
    /\ (chains[c].attempts = 3 /\ chains[c].st \in {"fetching", "ok"}) =>
         /\ chains[c].delays = <<500, 1000>>
         /\ Sum(chains[c].delays) = 1500
    /\ (OnlyChain(c) /\ Started(c) /\ chains[c].attempts <= 3) =>
         /\ chains[c].st # "failed"
         /\ launcherStatus.status_text # TextApiError
         /\ ~sinceTerminal
    /\ (OnlyChain(c) /\ chains[c].attempts = 3 /\ chains[c].st = "ok") =>
         /\ launcherConfig \in ValidConfigs
         /\ accounts = launcherConfig.accounts.items
         /\ IF accounts = <<>>
            THEN selectedAccount = NoAccount
            ELSE \E i \in 1..Len(accounts) : selectedAccount = accounts[i]

\* the mount chain failed twice and succeeded on its third attempt
C4_Witness ==
  /\ OnlyChain(1)
  /\ chains[1].st = "ok"
  /\ chains[1].attempts = 3
  /\ accounts # <<>>

\* C5: a chain has issued exactly one GET /api/check-java when it has ended
\* in success and none otherwise (while it retries, and when it has given
\* up), and a check is only ever issued with the configuration already held.
C5_JavaCheckOncePerSuccess ==
  /\ \A c \in ChainIds :
       chains[c].javaChecks = (IF chains[c].st = "ok" THEN 1 ELSE 0)
  /\ javaPending <= Cardinality({c \in ChainIds : chains[c].st = "ok"})
  /\ javaPending > 0 => launcherConfig # NullJson

\* one chain has succeeded and issued its check, another has given up
C5_Witness ==
  /\ javaPending = 1
  /\ \E c \in ChainIds : chains[c].st = "ok" /\ chains[c].attempts > 1
  /\ \E c \in ChainIds : chains[c].st = "failed"

\* C6: the held configuration is absent or has an array-typed accounts
\* field, and a 2xx response whose body has no array-typed accounts is a
\* failed attempt: it leaves the configuration alone and the chain either
\* waits for its next retry, with one retry less, or has given up.
C6_ConfigAccountsIsArray ==
  /\ [](launcherConfig = NullJson \/ IsArray(launcherConfig.accounts))
  /\ [][\A c \in ChainIds, resp \in ConfigResponses :
          (ConfigResponse(c, resp) /\ resp.kind = "json"
             /\ ~IsArray(resp.body.accounts)) =>
            /\ launcherConfig' = launcherConfig
            /\ \/ /\ chains'[c].st = "waiting"
                  /\ chains'[c].retries = chains[c].retries - 1
               \/ chains'[c].st = "failed"]_vars

\* a body without an array-typed accounts field has been received, nothing
\* is held and a retry is scheduled
C6_Witness ==
  /\ sawInvalidConfig
  /\ launcherConfig = NullJson
  /\ \E c \in ChainIds : chains[c].st = "waiting"

\* C7 as claimed: from the moment a chain has given up and until a status
\* poll or a configuration fetch succeeds, the status line shows the fixed
\* error text, no accounts are held and none is selected.
C7_TerminalStateShown ==
  sinceTerminal =>
    /\ StatusLine(launcherStatus) = TextApiError
    /\ accounts = <<>>
    /\ selectedAccount = NoAccount

\* C8: a launcher-status poll that fails (rejected fetch, non-2xx, unparsable
\* body) leaves every field of the held LauncherStatus as it was.
C8_FailedStatusPollKeepsState ==
  [][\A i \in 1..MaxStatusPolls, resp \in StatusResponses :
       (StatusResponse(i, resp) /\ ~Answered(resp)) =>
         launcherStatus' = launcherStatus]_vars

\* the response that arrived last is a failure and the status of an earlier
\* successful poll is still held
C8_Witness ==
  /\ statusFailRun >= 1
  /\ \E i \in 1..Len(statusLog) : statusLog[i].outcome = "ok"
  /\ launcherStatus \in StatusPayloads

\* three polls issued one after another have all failed and no poll issued
\* after them has succeeded
ThreeConsecutivePollsFailed ==
  \E i \in 1..(Len(serverLog) - 2) :
    /\ \A j \in i..(i + 2) : serverLog[j].outcome = "fail"
    /\ \A j \in (i + 3)..Len(serverLog) : serverLog[j].outcome # "ok"

\* C9 as claimed: in every interleaving, once three consecutive server-status
\* polls have failed the displayed server status is {online: false}.
C9_OfflineAfterThreeFailedPolls ==
  ThreeConsecutivePollsFailed => serverStatus = ServerOffline

\* C9 as amended: once the three most recently arrived server-status
\* responses are failures, the displayed server status is {online: false}.
C9_OfflineAfterThreeFailedResponses ==
  serverFailRun >= 3 => serverStatus = ServerOffline

\* a poll succeeded and the three responses that arrived last are failures
C9_Witness ==
  /\ serverFailRun >= 3
  /\ \E i \in 1..Len(serverLog) : serverLog[i].outcome = "ok"

\* C10: once mounted, the first launcher-status poll and the first
\* server-status poll have been issued, neither by a timer; every later
\* launcher-status poll was issued by a tick of the 2500 ms timer and every
\* later server-status poll by a tick of the 20000 ms timer, one per tick.
C10_PollsOnSchedule ==
  /\ phase = "mounted" =>
       /\ Len(statusLog) = 1 + timers["status"].fired
       /\ Len(serverLog) = 1 + timers["server"].fired
  /\ \A i \in 1..Len(statusLog) :
       IF i = 1 THEN ~statusLog[i].byTimer
       ELSE statusLog[i].byTimer /\ statusLog[i].period = 2500
  /\ \A i \in 1..Len(serverLog) :
       IF i = 1 THEN ~serverLog[i].byTimer
       ELSE serverLog[i].byTimer /\ serverLog[i].period = 20000

\* both loops have polled at mount and again on a tick
C10_Witness ==
  /\ Len(statusLog) >= 2
  /\ Len(serverLog) >= 2

\* C11: after Home has been torn down nothing it owns runs any more: no
\* launcher-status poll and no server-status poll is issued, no retry of a
\* bootstrap chain issues its GET /api/config, and no update callback changes
\* the update footer.
C11_NothingRunsAfterTeardown ==
  [][phase = "unmounted" =>
       /\ Len(statusLog') = Len(statusLog)
       /\ Len(serverLog') = Len(serverLog)
       /\ \A c \in ChainIds : chains'[c].attempts = chains[c].attempts
       /\ updateMessage' = updateMessage
       /\ isUpdateReady' = isUpdateReady]_vars

\* C12: a save whose POST /api/config came back non-2xx or was rejected has
\* failed at once: it has issued no re-read and scheduled no wait, it has
\* raised the failure toast and nothing else, and it has not called
\* onSettingsChange().
C12_RejectedWriteFailsAtOnce ==
  \A s \in SaveIds :
    saves[s].write \in {"non2xx", "reject"} =>
      /\ saves[s].st = "failed"
      /\ saves[s].reads = 0
      /\ saves[s].waits = <<>>
      /\ saves[s].notices = <<ToastSaveFailed>>
      /\ saves[s].changes = 0
      /\ \E k \in 1..Len(toasts) : toasts[k] = ToastSaveFailed

\* a game directory write, which a 2xx would have sent into the
\* confirmation loop, was answered non-2xx
C12_Witness ==
  \E s \in SaveIds :
    /\ saves[s].write = "non2xx"
    /\ NeedsConfirmation(saves[s].key, saves[s].data)

\* the saves that went into the confirmation loop: a game directory write
\* that was answered 2xx
Confirming(s) ==
  /\ saves[s].write = "ok"
  /\ NeedsConfirmation(saves[s].key, saves[s].data)

\* C13: a save in the confirmation loop issues at most 5 re-reads, and once
\* a re-read has come back with the written game directory the save has
\* succeeded (success toast raised) and issues no further re-read.
C13_StopsAtFirstMatch ==
  /\ [](\A s \in SaveIds :
          Confirming(s) =>
            /\ saves[s].reads <= 5
            /\ saves[s].matched =>
                 /\ saves[s].st = "ok"
                 /\ saves[s].notices[1] = ToastSaved)
  /\ [][\A s \in SaveIds :
          (Confirming(s) /\ saves[s].matched) =>
            saves'[s].reads = saves[s].reads]_vars

\* a save confirmed by its third re-read after two that did not match, and
\* something else has happened since
C13_Witness ==
  \E s \in SaveIds :
    /\ Confirming(s)
    /\ saves[s].matched
    /\ saves[s].reads = 3
    /\ Len(saves[s].waits) = 2
    /\ Len(toasts) > Len(saves[s].notices)

\* the saves whose game directory write was answered 2xx and that ended in
\* failure
Unconfirmed(s) ==
  /\ Confirming(s)
  /\ saves[s].st = "failed"

DirectorySaveFails(s) ==
  /\ saves[s].key = "game_settings"
  /\ saves[s].data.game_directory # <<>>
  /\ saves[s].data.game_directory # saves[s].heldBefore
  /\ saves[s].st \in {"writing", "reading", "waiting"}
  /\ saves'[s].st = "failed"

\* C15: when a game directory save ends in failure, whether its write was
\* turned down or no re-read confirmed it, the game directory the dialog
\* holds is the one it held before the save, not the path that was written.
C15_FailedPathNotPresented ==
  [][\A s \in SaveIds :
       DirectorySaveFails(s) =>
         /\ gameSettings'.game_directory = saves[s].heldBefore
         /\ gameSettings'.game_directory # saves[s].data.game_directory]_vars

\* call s is a game_settings save that has succeeded with an enable_logs
\* other than the one the dialog had loaded when the save was called
LogsChangeSaved(s) ==
  /\ saves[s].st = "ok"
  /\ saves[s].key = "game_settings"
  /\ saves[s].data.enable_logs # saves[s].initialLogs

ToggleIssued(t) ==
  /\ toggles[t].st = "idle"
  /\ toggles'[t].st = "posting"

\* C17: when the POST of a toggle is issued the mod list already holds the
\* new status of the mod with that filename; the list has the same mods in
\* the same order, every other mod is as it was, and the toggled mod differs
\* from what it was in its status only.
C17_OptimisticStatusOnly ==
  [][\A t \in ToggleIds :
       ToggleIssued(t) =>
         /\ Len(mods') = Len(mods)
         /\ \A k \in 1..Len(mods) :
              IF mods[k].filename = toggles'[t].filename
              THEN /\ mods'[k].status =
                        (IF toggles'[t].enabled THEN "enabled"
                         ELSE "disabled")
                   /\ mods'[k].filename = mods[k].filename
                   /\ mods'[k].name = mods[k].name
                   /\ mods'[k].description = mods[k].description
              ELSE mods'[k] = mods[k]]_vars

\* the POST of a toggle is in flight and the list of two mods differs from
\* the list the toggle found, in the toggled mod
C17_Witness ==
  \E t \in ToggleIds :
    /\ toggles[t].st = "posting"
    /\ Len(mods) = 2
    /\ \E k \in 1..2 :
         /\ mods[k].filename = toggles[t].filename
         /\ mods[k].status # toggles[t].originalMods[k].status

\* call t is the only toggle made so far
OnlyToggle(t) == \A u \in ToggleIds \ {t} : toggles[u].st = "idle"

\* C18: after a single toggle whose POST came back non-2xx or was rejected,
\* the mod list equals the list L the toggle found, in every field of every
\* mod.
C18_FailedToggleRestoresList ==
  \A t \in ToggleIds :
    (OnlyToggle(t) /\ toggles[t].st = "failed") =>
      /\ Len(mods) = Len(toggles[t].originalMods)
      /\ \A k \in 1..Len(mods) :
           /\ mods[k].filename = toggles[t].originalMods[k].filename
           /\ mods[k].name = toggles[t].originalMods[k].name
           /\ mods[k].description = toggles[t].originalMods[k].description
           /\ mods[k].status = toggles[t].originalMods[k].status

\* a single toggle of a list of two mods has failed
C18_Witness ==
  \E t \in ToggleIds :
    /\ OnlyToggle(t)
    /\ toggles[t].st = "failed"
    /\ Len(mods) = 2
    /\ Len(toasts) >= 1

\* the status the list holds for the mod with that filename
StatusOf(list, filename) ==
  LET k == CHOOSE n \in 1..Len(list) : list[n].filename = filename
  IN  list[k].status

\* the toggles a and b of two different mods are both in flight, and the
\* POST of a settles in this step
SettlesBeside(a, b) ==
  /\ a # b
  /\ toggles[a].st = "posting"
  /\ toggles[b].st = "posting"
  /\ toggles[a].filename # toggles[b].filename
  /\ toggles'[a].st # "posting"

\* C19: while the toggles of two different mods A and B are both in flight,
\* the success or failure of A's call leaves the status held for B as it is.
C19_TogglesIndependent ==
  [][\A a, b \in ToggleIds :
       SettlesBeside(a, b) =>
         StatusOf(mods', toggles[b].filename)
           = StatusOf(mods, toggles[b].filename)]_vars

\* the classifier texts that match an error marker: "Ошибка: требуется
\* Java" and "Java не найдена" and "Обнаружены изменения" by a Russian marker,
\* "Error: disk full" by the English prefix, "Ошибка: нет сети" by the
\* Russian one
WithErrorMarker ==
  {TextJavaRequired, TextJavaMissing, PhraseChangesDetected, TextErrorDisk,
   TextErrorNetwork}

\* the classifier texts that mention Java
WithJavaPhrase == {TextJavaRequired, TextJavaMissing, TextLaunchingJava}

\* the precedence of the claim: Java first, then the markers
JavaFirstClass(text) ==
  IF text \in WithJavaPhrase THEN "java"
  ELSE IF text \in WithErrorMarker THEN "generic"
  ELSE "none"

\* the markers first, Java among the texts that match one
MarkerFirstClass(text) ==
  IF text \notin WithErrorMarker THEN "none"
  ELSE IF text \in WithJavaPhrase THEN "java"
  ELSE "generic"

\* a new status text arrives in this step
NewStatusText ==
  launcherStatus'.status_text # launcherStatus.status_text

\* what the step that brings a new status text does: a toast is the generic
\* error, the Java modal open on that text is the java-environment error,
\* neither is informational; every step is exactly one of the three
AlertRaised ==
  IF toasts' # toasts THEN "generic"
  ELSE IF isJavaErrorOpen' /\ javaErrorMessage' = launcherStatus'.status_text
       THEN "java"
  ELSE "none"

\* C20 as stated: a new status text with a Java phrase opens the Java modal;
\* otherwise one with an error marker raises the error toast; otherwise
\* nothing is raised.
C20_JavaPhraseFirst ==
  [][NewStatusText =>
       AlertRaised = JavaFirstClass(launcherStatus'.status_text)]_vars

\* C20 amended: a new status text without an error marker raises nothing,
\* whether it mentions Java or not; one with an error marker opens the Java
\* modal if it mentions Java and raises the error toast if it does not. The
\* error toast leaves the modal alone and the modal comes without a toast.
C20_MarkerFirst ==
  [][NewStatusText =>
       /\ AlertRaised = MarkerFirstClass(launcherStatus'.status_text)
       /\ toasts' # toasts =>
            /\ toasts' = Append(toasts, toasts'[Len(toasts')])
            /\ toasts'[Len(toasts')].title = ToastTitleError
            /\ isJavaErrorOpen' = isJavaErrorOpen
            /\ javaErrorMessage' = javaErrorMessage]_vars

\* "Запуск Java..." is the status and no alert has been raised, then or
\* before
C20_Witness ==
  /\ launcherStatus.status_text = TextLaunchingJava
  /\ ~isJavaErrorOpen
  /\ toasts = <<>>
  /\ \E i \in 1..Len(statusLog) : statusLog[i].outcome = "ok"

\* the status text changes to text in this step
Arrives(text) ==
  /\ launcherStatus.status_text # text
  /\ launcherStatus'.status_text = text

\* C21: when "Ошибка: требуется Java" arrives the Java modal is open on that
\* text and no toast is added; when "Обнаружены изменения" arrives one error
\* toast is added and the modal is left as it is; when "Готов" arrives
\* neither the toasts nor the modal change.
C21_ClassifierExamples ==
  [][/\ Arrives(TextJavaRequired) =>
          /\ isJavaErrorOpen'
          /\ javaErrorMessage' = TextJavaRequired
          /\ toasts' = toasts
     /\ Arrives(PhraseChangesDetected) =>
          /\ Len(toasts') = Len(toasts) + 1
          /\ SubSeq(toasts', 1, Len(toasts)) = toasts
          /\ toasts'[Len(toasts')].title = ToastTitleError
          /\ toasts'[Len(toasts')].variant = "destructive"
          /\ isJavaErrorOpen' = isJavaErrorOpen
          /\ javaErrorMessage' = javaErrorMessage
     /\ Arrives(TextReady) =>
          /\ toasts' = toasts
          /\ isJavaErrorOpen' = isJavaErrorOpen
          /\ javaErrorMessage' = javaErrorMessage]_vars

\* "Обнаружены изменения" has raised its toast and then "Ошибка: требуется
\* Java" has opened the modal
C21_Witness ==
  /\ launcherStatus.status_text = TextJavaRequired
  /\ isJavaErrorOpen
  /\ javaErrorMessage = TextJavaRequired
  /\ Len(toasts) = 1
  /\ toasts[1].description = PhraseChangesDetected

\* the leading markers the status effect recognizes: "Ошибка:" and "Error:"
LeadingMarkers == {MarkerOshibka, MarkerError}

\* text without its leading marker and the space that follows the marker
WithoutLeadingMarker(text) ==
  IF \E m \in LeadingMarkers : StartsWith(text, m)
  THEN LET m    == CHOOSE x \in LeadingMarkers : StartsWith(text, x)
           rest == SubSeq(text, Len(m) + 1, Len(text))
       IN  IF rest # <<>> /\ rest[1] = 32 THEN Tail(rest) ELSE rest
  ELSE text

\* C22: the toast raised for a new status text carries that text without
\* its leading marker, whether the marker is "Ошибка:" or "Error:".
C22_ToastStripsLeadingMarker ==
  [][(NewStatusText /\ toasts' # toasts) =>
       toasts'[Len(toasts')].description =
         WithoutLeadingMarker(launcherStatus'.status_text)]_vars

\* what the Java modal shows: javaErrorMessage.replace("Ошибка: ", "")
JavaModalDescription == ReplaceFirst(javaErrorMessage, PrefixOshibka, <<>>)

\* C23: when a new status text arrives that has an error marker and
\* mentions Java, the Java modal is open after the step and holds that
\* text, whether or not a Java modal has been dismissed before.
C23_JavaStatusReopensModal ==
  [][(NewStatusText
        /\ launcherStatus'.status_text \in WithErrorMarker \cap WithJavaPhrase)
       => /\ isJavaErrorOpen'
          /\ javaErrorMessage' = launcherStatus'.status_text]_vars

\* the modal was dismissed and "Java не найдена" has opened it again
C23_Witness ==
  /\ javaErrorDismissed
  /\ isJavaErrorOpen
  /\ launcherStatus.status_text = TextJavaMissing
  /\ javaErrorMessage = TextJavaMissing
  /\ JavaModalDescription = TextJavaMissing

\* the state of the update tracker
TrackerState ==
  IF restartRequested THEN "restarting"
  ELSE IF isUpdateReady THEN "ready"
  ELSE IF updateMessage # <<>> THEN "notified"
  ELSE "idle"

\* the steps along idle -> notified -> ready -> restarting
PathSteps ==
  {<<"idle", "notified">>, <<"notified", "ready">>, <<"ready", "restarting">>}

\* C24: the tracker changes state only along idle -> notified -> ready ->
\* restarting, so ready is entered from notified only and restarting from
\* ready only.
C24_OnlyAlongThePath ==
  [][TrackerState' # TrackerState =>
       <<TrackerState, TrackerState'>> \in PathSteps]_vars

\* C24 amended: the tracker changes state only along idle -> notified ->
\* ready -> restarting or straight from idle to ready; ready is entered
\* by the ready signal alone, and the restart is requested in ready only.
C24_PathOrStraightToReady ==
  [][/\ TrackerState' # TrackerState =>
          <<TrackerState, TrackerState'>>
            \in PathSteps \cup {<<"idle", "ready">>}
     /\ (isUpdateReady' /\ ~isUpdateReady) => updateMessage' = TextUpdateReady
     /\ (restartRequested' /\ ~restartRequested) => TrackerState = "ready"
    ]_vars

\* the restart has been requested
C24_Witness ==
  /\ TrackerState = "restarting"
  /\ isUpdateReady
  /\ updateMessage = TextUpdateReady

\* C25: once the footer shows the restart button it shows it after every
\* further step: isUpdateReady stays true.
C25_ReadyStays ==
  [][UpdateFooter.button => (isUpdateReady' /\ UpdateFooter'.button)]_vars

\* the restart button is shown after a further progress message, a
\* launcher-status poll and the opening of the settings dialog
C25_Witness ==
  /\ UpdateFooter.button
  /\ ~restartRequested
  /\ updateMessage = TextUpdateProgress
  /\ settingsOpen
  /\ launcherStatus.status_text = TextReady

\* 512 <= min_mem <= max_mem <= maxSystemRam
WithinRam(settings) ==
  /\ SliderMin <= settings.min_mem
  /\ settings.min_mem <= settings.max_mem
  /\ settings.max_mem <= maxSystemRam

\* C26: while the settings dialog is open the held JavaSettings satisfy
\* 512 <= min_mem <= max_mem <= maxSystemRam, and so do the JavaSettings
\* handed to every java_settings save.
C26_MemoryWithinSystemRam ==
  /\ settingsOpen => WithinRam(javaSettings)
  /\ \A s \in SaveIds :
       saves[s].key = "java_settings" => WithinRam(saves[s].data)

\* a java_settings save with a chosen path has just failed
JavaPathSaveFails(s) ==
  /\ saves[s].key = "java_settings"
  /\ saves[s].data.path # saves[s].heldBefore
  /\ saves[s].st = "writing"
  /\ saves'[s].st = "failed"

\* C27: in the step that ends a java_settings save of a chosen path in
\* failure the failure toast is raised, the held Java path is again the one
\* held before the choice, and no "Java выбрана" toast for the path is among
\* the toasts.
C27_FailedJavaPathRolledBack ==
  [][\A s \in SaveIds :
       JavaPathSaveFails(s) =>
         /\ toasts' = Append(toasts, ToastSaveFailed)
         /\ javaSettings'.path = saves[s].heldBefore
         /\ \A i \in 1..Len(toasts') :
              toasts'[i] # ToastJavaSelected(saves[s].data.path)]_vars

\* what Home shows of its own state: the toasts, the Java modal, the
\* account list and selection, the two status displays
HomeSurface ==
  <<toasts, isJavaErrorOpen, javaErrorMessage, accounts, selectedAccount,
    launcherStatus, serverStatus, launcherConfig>>

\* C28: when the POST that writes last_selected_uuid for a selected account
\* fails, by a rejected fetch or by a status other than 2xx, the step
\* changes something Home shows: a toast, a modal, the selection.
C28_FailedSelectionWriteSurfaced ==
  [][(selectWrite.st = "pending" /\ selectWrite'.st \in {"non2xx", "reject"})
       => HomeSurface' # HomeSurface]_vars

\* the download handler goes on to an action that depends on the written
\* game directory: the configuration refresh, or the start of verification
DownloadProceeds ==
  /\ download'.st # download.st
  /\ download'.st \in {"refreshing", "verifying"}

\* C29: handleDownloadClick goes on from its game_directory write to the
\* configuration refresh or to the start of file verification only when a
\* configuration it has re-read since the write carried the written path.
C29_DownloadWaitsForEcho ==
  [][DownloadProceeds => download'.echoed]_vars

\* chain c is under way: its GET is in flight or its retry timer is set (a
\* chain that has settled is never under way again)
ChainRunning(c) == chains[c].st \in {"fetching", "waiting"}

\* save s is under way: its POST or a re-read is in flight, or its 200 ms
\* wait is running (a save that has returned is never under way again)
SaveRunning(s) == saves[s].st \in {"writing", "reading", "waiting"}

\* C30: with every request answered in the end and every timer fired, there
\* comes a time from which no fetchBackendData chain and no save is under
\* way: each has come to success or to failure; no chain makes more than 6
\* attempts and no save more than 5 re-reads.
C30_ChainsAndSavesSettle ==
  /\ <>[](/\ \A c \in ChainIds : ~ChainRunning(c)
          /\ \A s \in SaveIds : ~SaveRunning(s))
  /\ [](/\ \A c \in ChainIds : chains[c].attempts <= DefaultRetries + 1
        /\ \A s \in SaveIds : saves[s].reads <= ConfirmReads)

\* a chain has given up after its sixth attempt and a save has failed after
\* its fifth re-read
C30_Witness ==
  /\ \E c \in ChainIds :
       chains[c].st = "failed" /\ chains[c].attempts = DefaultRetries + 1
  /\ \E s \in SaveIds :
       saves[s].st = "failed" /\ saves[s].reads = ConfirmReads

\* the payload with the status text a chain writes when it gives up
WithApiError(payload) == [payload EXCEPT !.status_text = TextApiError]

\* C31: the held LauncherStatus is at all times the payload of the
\* successful GET /api/status answer that arrived last (the initial state
\* before the first one), whichever request it answers.
C31_HeldStatusIsLastArrived ==
  launcherStatus = lastStatusPayload

\* C31 amended: the held LauncherStatus is the payload of the successful
\* answer that arrived last, or that payload with the status text "Ошибка
\* API" written by a fetchBackendData chain that gave up; it changes only
\* when a status answer is used or a chain gives up.
C31_LastArrivedOrApiError ==
  [](launcherStatus \in {lastStatusPayload, WithApiError(lastStatusPayload)})
    /\ [][launcherStatus' # launcherStatus =>
            \/ /\ lastStatusPayload' = launcherStatus'
               /\ \E i \in 1..Len(statusLog) :
                    /\ statusLog[i].outcome = "pending"
                    /\ statusLog'[i].outcome = "ok"
            \/ /\ launcherStatus' = WithApiError(launcherStatus)
               /\ \E c \in ChainIds :
                    chains[c].st = "fetching" /\ chains'[c].st = "failed"]_vars

\* two polls were in flight at once and the one issued later was answered
\* first: its payload is held while the earlier request is still out
C31_Witness ==
  /\ Len(statusLog) >= 2
  /\ statusLog[1].outcome = "pending"
  /\ statusLog[2].outcome = "ok"
  /\ launcherStatus = lastStatusPayload
  /\ launcherStatus # InitialLauncherStatus

\* a call of handleSaveSettings made by the save button of the debug tab,
\* which sends the game directory the dialog already held and another
\* enable_logs than the one loaded
ChangesOnlyLogs(s) ==
  /\ saves[s].caller = "button"
  /\ saves[s].key = "game_settings"
  /\ saves[s].data.game_directory = saves[s].heldBefore
  /\ saves[s].data.enable_logs # saves[s].initialLogs

\* C32: a java_settings save and a game_settings save that changes only
\* enable_logs issue no GET /api/config at all, and have succeeded as soon
\* as their POST has been answered 2xx.
C32_OnlyDirectoryWritesReRead ==
  \A s \in SaveIds :
    (saves[s].key = "java_settings" \/ ChangesOnlyLogs(s)) =>
      /\ saves[s].reads = 0
      /\ saves[s].st \in {"writing", "ok", "failed"}
      /\ saves[s].st = "failed" => saves[s].write # "ok"

\* the status a toggle asks for
Desired(t) == IF toggles[t].enabled THEN "enabled" ELSE "disabled"

\* calls t and u toggle the same mod, u after t (call records are taken in
\* the order of the calls), no call was made after u and none has failed
ToggledTwice(t, u) ==
  /\ t < u
  /\ toggles[t].st \in {"posting", "ok"}
  /\ toggles[u].st \in {"posting", "ok"}
  /\ toggles[t].filename = toggles[u].filename
  /\ \A v \in ToggleIds \ {t, u} :
       \/ toggles[v].st = "idle" /\ v > u
       \/ toggles[v].st \in {"posting", "ok"} /\ v < u

\* C33: when a mod is toggled twice and neither call has failed, the mod
\* list holds for it the status the second toggle asked for, before, between
\* and after the two responses, in whichever order they arrive.
C33_LastToggleWins ==
  \A t, u \in ToggleIds :
    ToggledTwice(t, u) =>
      StatusOf(mods, toggles[u].filename) = Desired(u)

\* the second toggle of a mod was made while the first was in flight, and
\* its response has arrived first
C33_Witness ==
  /\ ToggledTwice(1, 2)
  /\ toggles[1].st = "posting"
  /\ toggles[2].st = "ok"
  /\ StatusOf(mods, toggles[2].filename) = Desired(2)

\* the status the backend holds for the mod of call t, when t is the only
\* toggle of that mod: the one asked for if the call was accepted, the one
\* loaded otherwise
BackendStatus(t) ==
  IF toggles[t].st = "ok" THEN Desired(t)
  ELSE StatusOf(toggles[t].originalMods, toggles[t].filename)

\* call t has resolved and is the only toggle made of its mod
OnlyToggleOf(t) ==
  /\ toggles[t].st \in {"ok", "failed"}
  /\ \A u \in ToggleIds \ {t} :
       toggles[u].st # "idle" => toggles[u].filename # toggles[t].filename

\* C34: once no toggleMod call is in flight, the mod list holds for every
\* mod the status the backend holds; stated for the mods toggled once, where
\* that status is the one asked for if the call was accepted and the
\* loaded one if it was not.
C34_LocalMatchesBackend ==
  (\A u \in ToggleIds : toggles[u].st # "posting") =>
    \A t \in ToggleIds :
      OnlyToggleOf(t) =>
        StatusOf(mods, toggles[t].filename) = BackendStatus(t)

\* chain c gives up in this step
GivesUp(c) ==
  /\ chains[c].st = "fetching"
  /\ chains'[c].st = "failed"

\* C35: once a chain has succeeded, the terminal failure of a chain started
\* before it (chains are numbered in the order they start) leaves the
\* accounts and the selected account as they are.
C35_StaleFailureKeepsAccounts ==
  [][\A c, d \in ChainIds :
       (c < d /\ chains[d].st = "ok" /\ GivesUp(c)) =>
         /\ accounts' = accounts
         /\ selectedAccount' = selectedAccount]_vars

\* chain c comes through its success path in this step
Succeeds(c) ==
  /\ chains[c].st = "fetching"
  /\ chains'[c].st = "ok"

\* the accounts of the list with that uuid
WithUuid(list, uuid) == {i \in 1..Len(list) : list[i].uuid = uuid}

\* C36: the step in which a config fetch succeeds leaves the selected
\* account null exactly when the fetched list is empty; otherwise it is the
\* first fetched account whose uuid is last_selected_uuid when there is one,
\* else the first fetched account; at all times the selected account is
\* null or a member of the held list.
C36_SelectionFromFetchedList ==
  /\ [][\A c \in ChainIds :
          Succeeds(c) =>
            LET fetched == launcherConfig'.accounts.items
                last == WithUuid(fetched, launcherConfig'.last_selected_uuid)
            IN  /\ accounts' = fetched
                /\ (selectedAccount' = NoAccount) <=> (Len(fetched) = 0)
                /\ Len(fetched) > 0 =>
                     IF last # {}
                     THEN \E i \in last :
                            /\ selectedAccount' = fetched[i]
                            /\ \A j \in last : i <= j
                     ELSE selectedAccount' = fetched[1]]_vars
  /\ [](\/ selectedAccount = NoAccount
        \/ \E i \in 1..Len(accounts) : accounts[i] = selectedAccount)

\* a fetch has succeeded with two accounts and the second of them, named by
\* last_selected_uuid, is selected
C36_Witness ==
  /\ \E c \in ChainIds : chains[c].st = "ok"
  /\ Len(accounts) = 2
  /\ launcherConfig.last_selected_uuid = accounts[2].uuid
  /\ selectedAccount = accounts[2]
  /\ selectWrite.st = "idle"

\* a GET /api/status answer is used in this step and carries the status
\* text already held
SameTextPoll ==
  /\ \E i \in 1..Len(statusLog) :
       /\ statusLog[i].outcome = "pending"
       /\ statusLog'[i].outcome = "ok"
  /\ launcherStatus'.status_text = launcherStatus.status_text

\* C37: a successful status poll that carries the status text already held
\* adds no toast and leaves the Java modal, open or closed, and its message
\* as they are.
C37_SameTextRaisesNothing ==
  [][SameTextPoll =>
       /\ toasts' = toasts
       /\ isJavaErrorOpen' = isJavaErrorOpen
       /\ javaErrorMessage' = javaErrorMessage]_vars

\* "Ошибка: требуется Java" is held, the Java modal it opened has been
\* closed, and a poll that carried the same text has left it closed
C37_Witness ==
  /\ sameTextPolls >= 1
  /\ launcherStatus.status_text = TextJavaRequired
  /\ javaErrorDismissed
  /\ ~isJavaErrorOpen
  /\ toasts = <<>>

\* the outcome notifications among the toasts of a call
Outcomes(notices) ==
  {i \in 1..Len(notices) : notices[i] \in {ToastSaved, ToastSaveFailed}}

\* C38: a save call that has ended has raised exactly one of the two
\* outcome toasts, "Настройки сохранены." when it succeeded and "Не удалось
\* сохранить настройки." when it failed, and has called onSettingsChange()
\* once when it succeeded and not at all when it failed; a call that has not
\* ended has done neither.
C38_OneOutcomePerSave ==
  \A s \in SaveIds :
    /\ saves[s].st \in {"idle", "writing", "reading", "waiting"} =>
         (saves[s].notices = <<>> /\ saves[s].changes = 0)
    /\ saves[s].st = "ok" =>
         /\ Outcomes(saves[s].notices) = {1}
         /\ saves[s].notices[1] = ToastSaved
         /\ saves[s].changes = 1
    /\ saves[s].st = "failed" =>
         /\ Outcomes(saves[s].notices) = {1}
         /\ saves[s].notices[1] = ToastSaveFailed
         /\ saves[s].changes = 0

\* a game_settings save has ended in failure after its POST was accepted:
\* one failure toast, no refresh of the page
C38_Witness ==
  \E s \in SaveIds :
    /\ saves[s].st = "failed"
    /\ saves[s].write = "ok"
    /\ saves[s].reads >= 1
    /\ saves[s].notices = <<ToastSaveFailed>>
    /\ saves[s].changes = 0
    /\ \A c \in ChainIds : c > 1 => chains[c].st = "idle"

\* call s has raised the restart-required advisory
Advised(s) ==
  \E i \in 1..Len(saves[s].notices) :
    saves[s].notices[i] = ToastRestartRequired

\* calls t and u are game_settings saves the backend has accepted, with the
\* same enable_logs: whichever of the two the backend took second found that
\* value held
SameLogsSavedTwice(t, u) ==
  /\ t < u
  /\ saves[t].st = "ok" /\ saves[t].key = "game_settings"
  /\ saves[u].st = "ok" /\ saves[u].key = "game_settings"
  /\ saves[t].data.enable_logs = saves[u].data.enable_logs

\* C39: a successful game_settings save raises the restart advisory only
\* when the enable_logs it saved differs from the one the backend held; of
\* two successful saves of the same enable_logs made while the dialog stays
\* open, at most one has raised it.
C39_AdvisoryOnlyOnChange ==
  \A t, u \in LogSaveIds :
    SameLogsSavedTwice(t, u) => ~(Advised(t) /\ Advised(u))

\* the POST /api/auth/elyby requests in flight
AuthInFlight(dialog) ==
  {k \in 1..Len(dialog.calls) : dialog.calls[k] = "pending"}

\* C40: at most one POST /api/auth/elyby of the add-account dialog is in
\* flight at any time, whatever is submitted, closed and opened again.
C40_OneAuthRequestInFlight ==
  Cardinality(AuthInFlight(addAccount)) <= 1

====
